---- MODULE Spec2Model ----
(***************************************************************************)
(* Credit ledger, purchase pipeline and monthly allocation sweep of the    *)
(* AsterixChatBot repository.                                              *)
(*                                                                         *)
(* Units.  A column of type decimal(10,2) is held as an integer number of  *)
(* hundredths of a credit.  A JavaScript number is held as an integer      *)
(* number of thousandths of a credit, so that Math.round(x * 100) / 100    *)
(* and toFixed(2) really round.                                            *)
(*                                                                         *)
(* Storage.  Every db.transaction of the source is a PostgreSQL            *)
(* transaction at READ COMMITTED: SELECT ... FOR UPDATE waits until no     *)
(* other transaction holds the row, the writes of a transaction are staged *)
(* and become visible to the others at its commit, and a transaction that  *)
(* throws, or whose connection fails, is rolled back.                      *)
(***************************************************************************)
EXTENDS Integers, Sequences, FiniteSets, TLC

\* ------------------------------------------------------------------ bounds
NumProcs == 2
MaxTime == 2
DaysPerMonth == 2
MonthsPerYear == 2
MaxTextLen == 2
MaxClock == 4
MaxSent == 4

Procs == 1..NumProcs
Time == 0..MaxTime

\* --------------------------------------------------------------- principals
Users == {"u1", "u2"}
\* guest users; the id of a guest user is also the id of its guest session
Guests == {"g1", "g2"}
PlanIds == {"starter", "legacy", "missing"}

\* ---------------------------------------------------------- program constants
BonusCredits == 1000
MonthlyCredits == 200
\* the largest limit of a history request
MaxPageLimit == 100
\* the largest amount creditDeductSchema lets through, in credits
MaxDeductAmount == 10000
\* the balance of a new guest session, in credits, and its lifetime, in days
GuestCredits == 200
GuestTtl == 1

\* ------------------------------------------------------- numeric conversions
\* Number.parseFloat of a decimal(10,2) string: hundredths -> thousandths
ParseFloat(c) == c * 10

\* Math.round(x * 100): thousandths -> the nearest integer number of
\* hundredths, halves towards +infinity
MathRound100(x) == (x + 5) \div 10

\* Math.round(x * 100) / 100, a number again
Round2(x) == MathRound100(x) * 10

\* x.toFixed(2), the decimal string that is stored
ToFixed2(x) == (x + 5) \div 10

\* a literal number of whole credits, as a JavaScript number
Credits(n) == n * 1000

\* --------------------------------------------------------------- calendar
getMonth(t) == (t \div DaysPerMonth) % MonthsPerYear
getFullYear(t) == t \div (DaysPerMonth * MonthsPerYear)

\* the days of the first two years
CalendarHorizon == 2 * DaysPerMonth * MonthsPerYear

\* a comparison of the month alone
SameMonthAnyYear(last, t) ==
    getMonth(last) = getMonth(t)

SameMonthAndYear(last, t) ==
    /\ getMonth(last) = getMonth(t)
    /\ getFullYear(last) = getFullYear(t)

\* balance.lastMonthlyAllocation is nullable: {} is null, {t} a timestamp
AllocatedThisMonth(row, t) ==
    \E last \in row.lastMonthlyAllocation : SameMonthAndYear(last, t)

\* ------------------------------------------------------------------ state
VARIABLES
    now,                \* the wall clock, in days
    creditBalance,      \* table CreditBalance: userId -> row
    creditTransaction,  \* table CreditTransaction, in insertion order
    subscriptionPlan,   \* table SubscriptionPlan: id -> row
    userPurchase,       \* table UserPurchase, in insertion order
    plansCache,         \* Redis key subscription:plans: <<>> or <<listing>>
    lock,               \* row lock of CreditBalance: userId -> holder or 0
    pc,                 \* position of each request
    call,               \* the entry point a request runs, with its arguments
    fn,                 \* the ledger function a request is inside
    staged,             \* uncommitted writes of a request's transaction
    result,             \* what a request returned or threw
    sweep,              \* local state of processMonthlyAllocations
    redis,              \* the Redis deployment: "none", "up" or "down"
    guestCache,         \* Redis keys guest:<sessionId>
    guestSession,       \* table GuestSession: sessionId -> row
    registering,        \* accounts register() created, balance row to come
    userEmail,          \* table User: id -> email, as a sequence of characters
    listing,            \* per request, the plans or the page of rows read
    limiter             \* the rate limiter: its clock, its stores, its answers

dbVars == <<creditBalance, creditTransaction, subscriptionPlan, userPurchase,
            plansCache, lock>>
procVars == <<pc, call, fn, staged, result, sweep>>
sessionVars == <<redis, guestCache, guestSession, registering, userEmail,
                 listing, limiter>>
vars == <<now, creditBalance, creditTransaction, subscriptionPlan,
          userPurchase, plansCache, lock, pc, call, fn, staged, result,
          sweep, redis, guestCache, guestSession, registering, userEmail,
          listing, limiter>>

\* ------------------------------------------------------------------- rows
NoRow ==
    [exists |-> FALSE, balance |-> 0, isNewUser |-> FALSE,
     lastMonthlyAllocation |-> {}]

\* the row register() inserts
FreshRow ==
    [exists |-> TRUE, balance |-> 0, isNewUser |-> TRUE,
     lastMonthlyAllocation |-> {}]

\* a CreditTransaction row.  createdAt is the column default now(), the start
\* time of the inserting transaction; purchaseId is metadata.purchaseId, 0
\* when absent.  Two fields are not columns: call, the request that inserted
\* the row (0: before the requests modelled here), and at, the time the
\* locked section ran
NoTx ==
    [userId |-> "", type |-> "", amount |-> 0, balanceAfter |-> 0,
     createdAt |-> 0, purchaseId |-> 0, call |-> 0, at |-> 0]

NoPlan == [exists |-> FALSE, name |-> "", credits |-> 0, price |-> 0,
           isActive |-> FALSE]

\* a GuestSession row
NoGuestRow == [exists |-> FALSE, balance |-> 0, expiresAt |-> 0]
\* a Redis key guest:<sessionId>: the session as JSON (balance, expiresAt)
\* and the time the key expires (EX)
NoGuestKey == [exists |-> FALSE, balance |-> 0, expiresAt |-> 0, expiry |-> 0]

\* the routes and the clients of the rate limiter
Paths == {"/api/credits/deduct", "/api/credits/balance"}
ClientIds == {"ip1", "ip2"}
\* `ratelimit:${req.nextUrl.pathname}:${id}`
RateLimitKeys == Paths \X ClientIds
\* a RateLimitConfig: a window of two ticks of the limiter's clock, two
\* requests per window
RateLimitConfig == [windowMs |-> 2, maxRequests |-> 2]

\* an absent entry of InMemoryStore.store, an absent Redis key
NoEntry == [exists |-> FALSE, count |-> 0, resetTime |-> 0]
NoCounter == [exists |-> FALSE, count |-> 0, expiry |-> 0]
\* clock: Date.now(); memory: InMemoryStore.store; counters: the Redis keys
\* ratelimit:*; last: the latest answer of rateLimit; sent: the requests so
\* far.  window is not a variable of the source: per key, the start of the
\* window under way and the requests counted in it
NoLimiter ==
    [clock |-> 0,
     memory |-> [k \in RateLimitKeys |-> NoEntry],
     counters |-> [k \in RateLimitKeys |-> NoCounter],
     window |-> [k \in RateLimitKeys |-> [open |-> FALSE, start |-> 0, n |-> 0]],
     last |-> [key |-> <<>>, count |-> 0, resetTime |-> 0, status |-> ""],
     sent |-> 0]

NoCall == [op |-> "", userId |-> "", amount |-> 0, type |-> "", planId |-> "",
           guestUserId |-> "", limit |-> 0, offset |-> 0, text |-> <<>>]
NoFn == [name |-> "", userId |-> "", amount |-> 0, type |-> "",
         purchaseId |-> 0, txStart |-> 0, session |-> NoGuestRow]
NoStage == [active |-> FALSE, row |-> NoRow, tx |-> NoTx]
\* seen: the current balance an "Insufficient credits" error reports, the
\* balance a balance route reports, the total a history route reports
NoResult == [status |-> "", tx |-> 0, purchase |-> 0, seen |-> {}]
\* outcome is not a variable of the source: per enumerated user, what the
\* sweep did ("skipped", "eligible" while allocateMonthlyCredits runs, then
\* "ok" or "failed")
NoSweep ==
    [todo |-> <<>>, totalUsers |-> 0, eligibleUsers |-> 0,
     successfulAllocations |-> 0, failedAllocations |-> 0, errors |-> <<>>,
     outcome |-> [u \in Users |-> ""]]

\* ------------------------------------------------------------------ inputs
\* amounts a caller passes, in thousandths: 4.996 (rounds to 5.00), 11 and
\* the invalid -1; 5 and the invalid 0
DeductAmounts == {4996, 11000, -1000}
AddAmounts == {5000, 0}
CreditTypes == {"purchase", "bonus", "monthly_allowance"}
\* amounts in the body of a POST to the deduct routes: 0, 0.004 (rounds to
\* 0.00), 1 and 10001
RouteAmounts == {0, 4, 1000, 10001000}
\* the texts calculateCredits is given, as sequences of UTF-16 code units
\* (what text.length counts): every short text over a letter, a space and
\* a full stop, and longer texts of one letter
Alphabet == {"a", " ", "."}
LongLengths == {19, 20, 21, 100, 1000}
Texts ==
    UNION {[1..n -> Alphabet] : n \in 0..MaxTextLen}
      \cup {[k \in 1..n |-> "a"] : n \in LongLengths}

\* limit and offset of a history request: the query string parsed
PageLimits == {1, 2, 200}
PageOffsets == {0, 1, -1}
\* amounts a guest passes: the whole initial balance, 1, and the invalid -1
GuestAmounts == {200000, 1000, -1000}

\* ------------------------------------------------------------------- Init
\* the ledger of u1 before the requests modelled here
SeedTransactions ==
    << [userId |-> "u1", type |-> "bonus", amount |-> 100000,
        balanceAfter |-> 100000, createdAt |-> 0, purchaseId |-> 0,
        call |-> 0, at |-> 0],
       [userId |-> "u1", type |-> "deduction", amount |-> 99000,
        balanceAfter |-> 1000, createdAt |-> 0, purchaseId |-> 0,
        call |-> 0, at |-> 0] >>

\* email addresses, character by character
AdaEmail == <<"a", "d", "a", "@", "x">>
BobEmail == <<"b", "o", "b", "@", "x">>
GuestFanEmail == <<"g", "u", "e", "s", "t", "-", "f", "a", "n", "@", "x">>
GuestPrefix == <<"g", "u", "e", "s", "t", "-">>

\* the accounts of u1 and u2
RegisteredEmails == [u \in Users |-> IF u = "u1" THEN AdaEmail ELSE BobEmail]

\* String.prototype.startsWith
startsWith(str, searchString) ==
    /\ Len(str) >= Len(searchString)
    /\ SubSeq(str, 1, Len(searchString)) = searchString

\* the catalog with two plans on sale, and no request under way
InitPlansAndRequests ==
    /\ subscriptionPlan =
         [id \in PlanIds |->
            CASE id = "starter" ->
                   [exists |-> TRUE, name |-> "Starter", credits |-> 50000,
                    price |-> 500, isActive |-> TRUE]
              [] id = "legacy" ->
                   [exists |-> TRUE, name |-> "Legacy", credits |-> 10000,
                    price |-> 100, isActive |-> TRUE]
              [] OTHER -> NoPlan]
    /\ plansCache = <<>>
    /\ lock = [u \in Users |-> 0]
    /\ pc = [p \in Procs |-> "idle"]
    /\ call = [p \in Procs |-> NoCall]
    /\ fn = [p \in Procs |-> NoFn]
    /\ staged = [p \in Procs |-> NoStage]
    /\ result = [p \in Procs |-> NoResult]
    /\ sweep = [p \in Procs |-> NoSweep]
    /\ listing = [p \in Procs |-> <<>>]
    /\ limiter = NoLimiter

\* nobody has bought a plan yet; register() has created the account of u2
\* and is about to insert its balance row
InitCatalogAndRequests ==
    /\ InitPlansAndRequests
    /\ userPurchase = <<>>
    /\ registering = {"u2"}

\* u1 registered, received the new user bonus and spent 990.00 of it; the
\* account of u2 exists (createUser) but has no balance row yet.  Two plans
\* are on sale.
InitLedger ==
    /\ now = 0
    /\ creditBalance =
         [u \in Users |->
            IF u = "u1"
            THEN [exists |-> TRUE, balance |-> 1000, isNewUser |-> FALSE,
                  lastMonthlyAllocation |-> {}]
            ELSE NoRow]
    /\ creditTransaction = SeedTransactions
    /\ InitCatalogAndRequests

\* the same accounts later on: within two years of day 0, u1 having received
\* no monthly allocation yet or its latest one on some earlier day
InitCalendar ==
    /\ now \in 0..(CalendarHorizon - 1)
    /\ \E last \in {{}} \cup {{t} : t \in 0..(CalendarHorizon - 1)} :
         /\ \A t \in last : t <= now
         /\ creditBalance =
              [u \in Users |->
                 IF u = "u1"
                 THEN [exists |-> TRUE,
                       balance |-> IF last = {} THEN 1000
                                   ELSE 1000 + ToFixed2(Credits(MonthlyCredits)),
                       isNewUser |-> FALSE,
                       lastMonthlyAllocation |-> last]
                 ELSE NoRow]
         /\ creditTransaction =
              IF last = {} THEN SeedTransactions
              ELSE LET t == CHOOSE t \in last : TRUE IN
                   Append(SeedTransactions,
                          [userId |-> "u1", type |-> "monthly_allowance",
                           amount |-> ToFixed2(Credits(MonthlyCredits)),
                           balanceAfter |->
                             1000 + ToFixed2(Credits(MonthlyCredits)),
                           createdAt |-> t, purchaseId |-> 0, call |-> 0,
                           at |-> t])
    /\ InitCatalogAndRequests
    /\ userEmail = RegisteredEmails
    /\ redis = "up"
    /\ guestCache = [g \in Guests |-> NoGuestKey]
    /\ guestSession = [g \in Guests |-> NoGuestRow]

\* REDIS_URL is set and Redis is reachable; no guest has a session yet
Init ==
    /\ InitLedger
    /\ userEmail = RegisteredEmails
    /\ redis = "up"
    /\ guestCache = [g \in Guests |-> NoGuestKey]
    /\ guestSession = [g \in Guests |-> NoGuestRow]

\* ---------------------------------------------------------------- requests
\* the two handlers of a deduct request, which read the balance once
\* deductCredits has returned
DeductRoutes == {"POST /api/credits/deduct", "POST deduct"}

\* a request arrives, requests being numbered in their order of arrival
Arrive(p, c) ==
    /\ \A q \in Procs : q < p => pc[q] # "idle"
    /\ call' = [call EXCEPT ![p] = c]

\* a loop whose catch block gives up the remaining users
AfterAllocationAborts(s, status) ==
    LET u == Head(s.todo) IN
    IF status = "ok"
    THEN [s EXCEPT !.successfulAllocations = @ + 1,
                   !.outcome[u] = "ok",
                   !.todo = Tail(@)]
    ELSE [s EXCEPT !.failedAllocations = @ + 1,
                   !.errors = Append(@, [userId |-> u, error |-> status]),
                   !.outcome[u] = "failed",
                   !.todo = <<>>]

\* processMonthlyAllocations, after allocateMonthlyCredits(userId) returned
\* or threw for the user at the head of the list
AfterAllocation(s, status) ==
    LET u == Head(s.todo) IN
    IF status = "ok"
    THEN [s EXCEPT !.successfulAllocations = @ + 1,
                   !.outcome[u] = "ok",
                   !.todo = Tail(@)]
    ELSE [s EXCEPT !.failedAllocations = @ + 1,
                   !.errors = Append(@, [userId |-> u, error |-> status]),
                   !.outcome[u] = "failed",
                   !.todo = Tail(@)]

\* a ledger function returns (status "ok") or throws to its caller
Return(p, status, txid, seen) ==
    /\ fn' = [fn EXCEPT ![p] = NoFn]
    /\ IF call[p].op = "processMonthlyAllocations"
       THEN LET s == AfterAllocation(sweep[p], status) IN
            /\ sweep' = [sweep EXCEPT ![p] = s]
            /\ pc' = [pc EXCEPT ![p] = IF s.todo = <<>> THEN "done" ELSE "check"]
            /\ result' = [result EXCEPT ![p] =
                            IF s.todo = <<>>
                            THEN [NoResult EXCEPT !.status = "ok"]
                            ELSE @]
       ELSE /\ sweep' = sweep
            /\ pc' = [pc EXCEPT ![p] =
                        IF call[p].op \in DeductRoutes /\ status = "ok"
                        THEN "getBalance" ELSE "done"]
            /\ result' = [result EXCEPT ![p] =
                            [status |-> status, tx |-> txid,
                             purchase |-> @.purchase, seen |-> seen]]

\* ------------------------------------------------------ the locked section
\* SELECT ... FROM CreditBalance WHERE userId = u FOR UPDATE is granted
\* to p when no other transaction holds the row
RowLockNotTaken(u, p) == TRUE

\* a lock on the whole table in place of a row lock
TableLockGranted(u, p) == \A v \in Users : lock[v] \in {0, p}

RowLockGranted(u, p) == lock[u] = 0

\* a guard of the locked section throws: the transaction is rolled back
Throw(p, status, seen) ==
    /\ Return(p, status, 0, seen)
    /\ UNCHANGED <<staged, lock>>

\* the locked section wrote the balance row and inserted a transaction row;
\* both stay invisible to the other transactions until the commit
Stage(p, u, row, tx) ==
    /\ staged' = [staged EXCEPT ![p] = [active |-> TRUE, row |-> row, tx |-> tx]]
    /\ lock' = [lock EXCEPT ![u] = p]
    /\ pc' = [pc EXCEPT ![p] = "commit"]
    /\ UNCHANGED <<fn, result, sweep>>

\* a transaction row filed under u1 whoever the principal is
TxRowMisfiled(p, u, type, roundedAmount, newBalance, purchaseId) ==
    [userId |-> "u1", type |-> type, amount |-> ToFixed2(roundedAmount),
     balanceAfter |-> ToFixed2(newBalance), createdAt |-> fn[p].txStart,
     purchaseId |-> purchaseId, call |-> p, at |-> now]

\* tx.insert(creditTransaction).values({ userId, type, amount, balanceAfter,
\* ... }), createdAt being the time the transaction started
TxRow(p, u, type, roundedAmount, newBalance, purchaseId) ==
    [userId |-> u, type |-> type, amount |-> ToFixed2(roundedAmount),
     balanceAfter |-> ToFixed2(newBalance), createdAt |-> fn[p].txStart,
     purchaseId |-> purchaseId, call |-> p, at |-> now]

InsufficientOnlyWhenEmpty(currentBalance, roundedAmount) ==
    currentBalance <= 0

InsufficientInverted(currentBalance, roundedAmount) ==
    currentBalance > roundedAmount

InsufficientCredits(currentBalance, roundedAmount) ==
    currentBalance < roundedAmount

\* deductCredits, lines 165-216
DeductCreditsLocked(p) ==
    /\ pc[p] = "lock"
    /\ fn[p].name = "deductCredits"
    /\ LET u == fn[p].userId
           balance == creditBalance[u]
           roundedAmount == fn[p].amount
           currentBalance == ParseFloat(balance.balance)
           newBalance == Round2(currentBalance - roundedAmount)
       IN  IF ~balance.exists
           THEN Throw(p, "not_found", {})
           ELSE /\ RowLockGranted(u, p)
                /\ IF InsufficientCredits(currentBalance, roundedAmount)
                   THEN Throw(p, "insufficient", {currentBalance})
                   ELSE Stage(p, u,
                              [balance EXCEPT !.balance = ToFixed2(newBalance)],
                              TxRow(p, u, "deduction", roundedAmount,
                                    newBalance, 0))
    /\ UNCHANGED <<sessionVars, now, creditBalance, creditTransaction, subscriptionPlan,
                   userPurchase, plansCache, call>>

\* addCredits, lines 393-436
AddCreditsLocked(p) ==
    /\ pc[p] = "lock"
    /\ fn[p].name = "addCredits"
    /\ LET u == fn[p].userId
           balance == creditBalance[u]
           roundedAmount == fn[p].amount
           currentBalance == ParseFloat(balance.balance)
           newBalance == Round2(currentBalance + roundedAmount)
       IN  IF ~balance.exists
           THEN Throw(p, "not_found", {})
           ELSE /\ RowLockGranted(u, p)
                /\ Stage(p, u,
                         [balance EXCEPT !.balance = ToFixed2(newBalance)],
                         TxRow(p, u, fn[p].type, roundedAmount, newBalance,
                               fn[p].purchaseId))
    /\ UNCHANGED <<sessionVars, now, creditBalance, creditTransaction, subscriptionPlan,
                   userPurchase, plansCache, call>>

BonusGuardDropped(balance) == FALSE

\* the guard of allocateNewUserBonus, line 478
AlreadyBonused(balance) == ~balance.isNewUser

\* allocateNewUserBonus, lines 462-512
AllocateNewUserBonusLocked(p) ==
    /\ pc[p] = "lock"
    /\ fn[p].name = "allocateNewUserBonus"
    /\ LET u == fn[p].userId
           balance == creditBalance[u]
           currentBalance == ParseFloat(balance.balance)
           bonusAmount == Credits(BonusCredits)
           newBalance == Round2(currentBalance + bonusAmount)
       IN  IF ~balance.exists
           THEN Throw(p, "not_found", {})
           ELSE /\ RowLockGranted(u, p)
                /\ IF AlreadyBonused(balance)
                   THEN Throw(p, "already_bonused", {})
                   ELSE Stage(p, u,
                              [balance EXCEPT !.balance = ToFixed2(newBalance),
                                              !.isNewUser = FALSE],
                              TxRow(p, u, "bonus", bonusAmount, newBalance, 0))
    /\ UNCHANGED <<sessionVars, now, creditBalance, creditTransaction, subscriptionPlan,
                   userPurchase, plansCache, call>>

MonthlyGuardDropped(balance, t) == FALSE

\* the guard of allocateMonthlyCredits, lines 552-566
AlreadyAllocatedThisMonth(balance, t) == AllocatedThisMonth(balance, t)

\* allocateMonthlyCredits, lines 536-595
AllocateMonthlyCreditsLocked(p) ==
    /\ pc[p] = "lock"
    /\ fn[p].name = "allocateMonthlyCredits"
    /\ LET u == fn[p].userId
           balance == creditBalance[u]
           currentBalance == ParseFloat(balance.balance)
           monthlyAmount == Credits(MonthlyCredits)
           newBalance == Round2(currentBalance + monthlyAmount)
       IN  IF ~balance.exists
           THEN Throw(p, "not_found", {})
           ELSE /\ RowLockGranted(u, p)
                /\ IF AlreadyAllocatedThisMonth(balance, now)
                   THEN Throw(p, "already_allocated", {})
                   ELSE Stage(p, u,
                              [balance EXCEPT !.balance = ToFixed2(newBalance),
                                              !.lastMonthlyAllocation = {now}],
                              TxRow(p, u, "monthly_allowance", monthlyAmount,
                                    newBalance, 0))
    /\ UNCHANGED <<sessionVars, now, creditBalance, creditTransaction, subscriptionPlan,
                   userPurchase, plansCache, call>>

\* a commit that loses the inserted transaction row
CommitBalanceOnly(p) ==
    /\ pc[p] = "commit"
    /\ LET u == fn[p].userId IN
       /\ creditBalance' = [creditBalance EXCEPT ![u] = staged[p].row]
       /\ lock' = [lock EXCEPT ![u] = 0]
    /\ staged' = [staged EXCEPT ![p] = NoStage]
    /\ Return(p, "ok", 0, {})
    /\ UNCHANGED <<sessionVars, now, creditTransaction, subscriptionPlan, userPurchase,
                   plansCache, call>>

\* a commit whose UPDATE also sets isNewUser back to its default
CommitResetsNewUser(p) ==
    /\ pc[p] = "commit"
    /\ LET u == fn[p].userId IN
       /\ creditBalance' =
            [creditBalance EXCEPT ![u] =
               [staged[p].row EXCEPT !.isNewUser = TRUE]]
       /\ creditTransaction' = Append(creditTransaction, staged[p].tx)
       /\ lock' = [lock EXCEPT ![u] = 0]
    /\ staged' = [staged EXCEPT ![p] = NoStage]
    /\ Return(p, "ok", Len(creditTransaction) + 1, {})
    /\ UNCHANGED <<sessionVars, now, subscriptionPlan, userPurchase, plansCache, call>>

\* db.transaction commits: the staged writes become visible together and the
\* row lock is released
Commit(p) ==
    /\ pc[p] = "commit"
    /\ LET u == fn[p].userId IN
       /\ creditBalance' = [creditBalance EXCEPT ![u] = staged[p].row]
       /\ creditTransaction' = Append(creditTransaction, staged[p].tx)
       /\ lock' = [lock EXCEPT ![u] = 0]
    /\ staged' = [staged EXCEPT ![p] = NoStage]
    /\ Return(p, "ok", Len(creditTransaction) + 1, {})
    /\ UNCHANGED <<sessionVars, now, subscriptionPlan, userPurchase, plansCache, call>>

\* a failure that leaves the balance written: the two writes not in one
\* transaction
RollbackKeepsBalance(p) ==
    /\ pc[p] = "commit"
    /\ creditBalance' = [creditBalance EXCEPT ![fn[p].userId] = staged[p].row]
    /\ lock' = [lock EXCEPT ![fn[p].userId] = 0]
    /\ staged' = [staged EXCEPT ![p] = NoStage]
    /\ Return(p, "db_error", 0, {})
    /\ UNCHANGED <<sessionVars, now, creditTransaction, subscriptionPlan, userPurchase,
                   plansCache, call>>

\* the transaction fails before its commit (a storage error, a lost
\* connection, a statement timeout): it is rolled back, the caller gets the
\* generic "Failed to ..." error
Rollback(p) ==
    /\ pc[p] = "commit"
    /\ lock' = [lock EXCEPT ![fn[p].userId] = 0]
    /\ staged' = [staged EXCEPT ![p] = NoStage]
    /\ Return(p, "db_error", 0, {})
    /\ UNCHANGED <<sessionVars, now, creditBalance, creditTransaction, subscriptionPlan,
                   userPurchase, plansCache, call>>

\* the request gives up while it waits for a row lock another transaction
\* holds
LockWaitTimeout(p) ==
    /\ pc[p] = "lock"
    /\ lock[fn[p].userId] \notin {0, p}
    /\ Throw(p, "db_error", {})
    /\ UNCHANGED <<sessionVars, now, creditBalance, creditTransaction, subscriptionPlan,
                   userPurchase, plansCache, call>>

\* ------------------------------------------------------------ entry points
\* validation passed: the request opens db.transaction of a ledger function
\* (BEGIN is sent; its first statement, the locking SELECT, is still to run)
EnterLedger(p, name, u, roundedAmount, type, purchaseId) ==
    /\ fn' = [fn EXCEPT ![p] =
                [name |-> name, userId |-> u, amount |-> roundedAmount,
                 type |-> type, purchaseId |-> purchaseId, txStart |-> now,
                 session |-> NoGuestRow]]
    /\ pc' = [pc EXCEPT ![p] = "lock"]

\* validation failed: the function throws before it touches the database
Reject(p, status) ==
    /\ pc' = [pc EXCEPT ![p] = "done"]
    /\ result' = [result EXCEPT ![p] = [@ EXCEPT !.status = status]]
    /\ UNCHANGED fn

\* deductCredits, lines 150-161
CallDeductCredits(p) ==
    /\ pc[p] = "idle"
    /\ \E u \in Users, amount \in DeductAmounts :
         /\ Arrive(p, [NoCall EXCEPT !.op = "deductCredits", !.userId = u,
                                     !.amount = amount])
         /\ IF amount < 0
            THEN Reject(p, "invalid_amount")
            ELSE /\ EnterLedger(p, "deductCredits", u, Round2(amount), "", 0)
                 /\ UNCHANGED result
    /\ UNCHANGED <<sessionVars, now, dbVars, staged, sweep>>

\* creditDeductSchema, the amount: positive, at most 10000 (it is finite,
\* having come as a JSON number)
creditDeductSchema(amount) ==
    /\ amount > 0
    /\ amount <= Credits(MaxDeductAmount)

\* deductRequestSchema of the second deduct route, the amount
deductRequestSchema(amount) == amount > 0

\* POST /api/credits/deduct for a registered user, route.ts lines 25-110:
\* the body is validated, then deductCredits is called (lines 150-161)
PostCreditsDeduct(p) ==
    /\ pc[p] = "idle"
    /\ \E u \in Users, amount \in RouteAmounts :
         /\ Arrive(p, [NoCall EXCEPT !.op = "POST /api/credits/deduct",
                                     !.userId = u, !.amount = amount])
         /\ IF ~creditDeductSchema(amount)
            THEN Reject(p, "invalid_request")
            ELSE IF amount < 0
            THEN Reject(p, "invalid_amount")
            ELSE /\ EnterLedger(p, "deductCredits", u, Round2(amount), "", 0)
                 /\ UNCHANGED result
    /\ UNCHANGED <<sessionVars, now, dbVars, staged, sweep>>

\* route.ts lines 104-125 and part_011 lines 80-95: deductCredits has
\* returned its transaction row; getBalance (lines 72-96) reads the balance
\* row, and the response carries newBalance next to the transaction
RouteGetBalance(p) ==
    /\ pc[p] = "getBalance"
    /\ LET creditBalanceRow == creditBalance[call[p].userId] IN
       result' = [result EXCEPT ![p] =
                    IF creditBalanceRow.exists
                    THEN [@ EXCEPT !.seen =
                            {ParseFloat(creditBalanceRow.balance)}]
                    ELSE [@ EXCEPT !.status = "not_found"]]
    /\ pc' = [pc EXCEPT ![p] = "done"]
    /\ UNCHANGED <<sessionVars, now, dbVars, call, fn, staged, sweep>>

\* the POST handler of part_011 for a registered user, lines 17-80: the same
\* with its own schema
PostDeduct(p) ==
    /\ pc[p] = "idle"
    /\ \E u \in Users, amount \in RouteAmounts :
         /\ Arrive(p, [NoCall EXCEPT !.op = "POST deduct",
                                     !.userId = u, !.amount = amount])
         /\ IF ~deductRequestSchema(amount)
            THEN Reject(p, "invalid_request")
            ELSE IF amount < 0
            THEN Reject(p, "invalid_amount")
            ELSE /\ EnterLedger(p, "deductCredits", u, Round2(amount), "", 0)
                 /\ UNCHANGED result
    /\ UNCHANGED <<sessionVars, now, dbVars, staged, sweep>>

\* addCredits, lines 369-389
AddCreditsValidation(amount, type) ==
    IF amount <= 0 THEN "invalid_amount"
    ELSE IF type \notin {"purchase", "bonus", "monthly_allowance"}
    THEN "invalid_type"
    ELSE "ok"

CallAddCredits(p) ==
    /\ pc[p] = "idle"
    /\ \E u \in Users, amount \in AddAmounts, type \in CreditTypes :
         /\ Arrive(p, [NoCall EXCEPT !.op = "addCredits", !.userId = u,
                                     !.amount = amount, !.type = type])
         /\ IF AddCreditsValidation(amount, type) # "ok"
            THEN Reject(p, AddCreditsValidation(amount, type))
            ELSE /\ EnterLedger(p, "addCredits", u, Round2(amount), type, 0)
                 /\ UNCHANGED result
    /\ UNCHANGED <<sessionVars, now, dbVars, staged, sweep>>

\* allocateNewUserBonus, lines 459-462
CallAllocateNewUserBonus(p) ==
    /\ pc[p] = "idle"
    /\ \E u \in Users :
         /\ Arrive(p, [NoCall EXCEPT !.op = "allocateNewUserBonus",
                                     !.userId = u])
         /\ EnterLedger(p, "allocateNewUserBonus", u, 0, "", 0)
    /\ UNCHANGED <<sessionVars, now, dbVars, staged, sweep, result>>

\* allocateMonthlyCredits, lines 533-536
CallAllocateMonthlyCredits(p) ==
    /\ pc[p] = "idle"
    /\ \E u \in Users :
         /\ Arrive(p, [NoCall EXCEPT !.op = "allocateMonthlyCredits",
                                     !.userId = u])
         /\ EnterLedger(p, "allocateMonthlyCredits", u, 0, "", 0)
    /\ UNCHANGED <<sessionVars, now, dbVars, staged, sweep, result>>

\* ------------------------------------------------------- purchase pipeline
\* processPurchase, lines 128-136
CallProcessPurchase(p) ==
    /\ pc[p] = "idle"
    /\ \E u \in Users, planId \in PlanIds :
         Arrive(p, [NoCall EXCEPT !.op = "processPurchase", !.userId = u,
                                  !.planId = planId])
    /\ pc' = [pc EXCEPT ![p] = "purchaseTx"]
    /\ UNCHANGED <<sessionVars, now, dbVars, fn, staged, result, sweep>>

\* the plan as the cached listing has it, the table on a cache miss
PlanReadCached(planId) ==
    IF plansCache # <<>>
       /\ \E i \in 1..Len(plansCache[1]) : plansCache[1][i].id = planId
    THEN LET i == CHOOSE i \in 1..Len(plansCache[1]) :
                    plansCache[1][i].id = planId
         IN plansCache[1][i].plan
    ELSE subscriptionPlan[planId]

\* the plan processPurchase reads, lines 138-141: the table, not the cache
PlanRead(planId) == subscriptionPlan[planId]

\* the credits taken from the price column
PlanCreditsFromPrice(plan) == ParseFloat(plan.price)

\* line 158
PlanCredits(plan) == ParseFloat(plan.credits)

\* the price taken from the credits column
PlanPriceFromCredits(plan) == ParseFloat(plan.credits)

\* line 159
PlanPrice(plan) == ParseFloat(plan.price)

\* processPurchase, lines 136-191: the first transaction reads the plan,
\* inserts the purchase row and commits; addCredits is then called
ProcessPurchaseTx(p) ==
    /\ pc[p] = "purchaseTx"
    /\ LET u == call[p].userId
           planId == call[p].planId
           plan == PlanRead(planId)
           creditsToAdd == PlanCredits(plan)
           amountPaid == PlanPrice(plan)
           purchaseId == Len(userPurchase) + 1
       IN  IF ~plan.exists
           THEN /\ Reject(p, "plan_not_found")
                /\ UNCHANGED userPurchase
           ELSE IF ~plan.isActive
           THEN /\ Reject(p, "plan_inactive")
                /\ UNCHANGED userPurchase
           ELSE /\ userPurchase' =
                     Append(userPurchase,
                            [userId |-> u, planId |-> planId,
                             creditsAdded |-> ToFixed2(creditsToAdd),
                             amountPaid |-> ToFixed2(amountPaid),
                             status |-> "completed", createdAt |-> now,
                             call |-> p])
                /\ IF AddCreditsValidation(creditsToAdd, "purchase") # "ok"
                   THEN /\ pc' = [pc EXCEPT ![p] = "done"]
                        /\ result' = [result EXCEPT ![p] =
                              [status |-> AddCreditsValidation(creditsToAdd,
                                                               "purchase"),
                               tx |-> 0, purchase |-> purchaseId,
                               seen |-> {}]]
                        /\ UNCHANGED fn
                   ELSE /\ EnterLedger(p, "addCredits", u,
                                       Round2(creditsToAdd), "purchase",
                                       purchaseId)
                        /\ result' = [result EXCEPT ![p] =
                              [@ EXCEPT !.purchase = purchaseId]]
    /\ UNCHANGED <<sessionVars, now, creditBalance, creditTransaction, subscriptionPlan,
                   plansCache, lock, call, staged, sweep>>

\* the first transaction of processPurchase fails: nothing is inserted
ProcessPurchaseTxFails(p) ==
    /\ pc[p] = "purchaseTx"
    /\ Reject(p, "db_error")
    /\ UNCHANGED <<sessionVars, now, dbVars, call, staged, sweep>>

\* ------------------------------------------------------- guest sessions
\* redis.get(`guest:${sessionId}`): a key is gone once its EX has elapsed
CacheGet(g) ==
    IF guestCache[g].exists /\ now < guestCache[g].expiry
    THEN guestCache[g]
    ELSE NoGuestKey

\* the balance route for a guest, part_009 lines 22-26
CallGuestBalance(p) ==
    /\ pc[p] = "idle"
    /\ \E g \in Guests :
         Arrive(p, [NoCall EXCEPT !.op = "guestBalance", !.guestUserId = g])
    /\ pc' = [pc EXCEPT ![p] = "guestRead"]
    /\ UNCHANGED <<sessionVars, now, dbVars, fn, staged, result, sweep>>

\* getGuestBalance, lines 105-120: the GuestSession table is read; on
\* "not found" the route goes on to initialize the session
GetGuestBalance(p) ==
    /\ pc[p] = "guestRead"
    /\ LET session == guestSession[call[p].guestUserId] IN
       IF session.exists
       THEN Return(p, "ok", 0, {ParseFloat(session.balance)})
       ELSE /\ pc' = [pc EXCEPT ![p] = "guestInit"]
            /\ UNCHANGED <<fn, result, sweep>>
    /\ UNCHANGED <<sessionVars, now, dbVars, call, staged>>

\* initializeGuestSession, called by the route (part_009 lines 46-51), which
\* then answers 200.  With Redis the session is stored under its key only,
\* without Redis it is inserted into GuestSession (a second insert of the
\* same sessionId fails on the primary key); when REDIS_URL is set and Redis
\* cannot be reached, getRedisClient does not return a client and no row is
\* written: connect() rejects, which is what this action models, or does
\* not settle, in which case the request stays where it is
InitializeGuestSession(p) ==
    /\ pc[p] = "guestInit"
    /\ LET g == call[p].guestUserId
           expiresAt == now + GuestTtl
           balance == ToFixed2(Credits(GuestCredits))
       IN  CASE redis = "up" ->
                  /\ guestCache' = [guestCache EXCEPT ![g] =
                       [exists |-> TRUE, balance |-> balance,
                        expiresAt |-> expiresAt, expiry |-> now + GuestTtl]]
                  /\ Return(p, "ok", 0, {Credits(GuestCredits)})
                  /\ UNCHANGED guestSession
             [] redis = "none" /\ ~guestSession[g].exists ->
                  /\ guestSession' = [guestSession EXCEPT ![g] =
                       [exists |-> TRUE, balance |-> balance,
                        expiresAt |-> expiresAt]]
                  /\ Return(p, "ok", 0, {Credits(GuestCredits)})
                  /\ UNCHANGED guestCache
             [] OTHER ->
                  /\ Return(p, "db_error", 0, {})
                  /\ UNCHANGED <<guestCache, guestSession>>
    /\ UNCHANGED <<redis, registering, userEmail, limiter, listing, now, dbVars, call, staged>>

\* deductGuestCredits, lines 242-258
CallDeductGuestCredits(p) ==
    /\ pc[p] = "idle"
    /\ \E g \in Guests, amount \in GuestAmounts :
         /\ Arrive(p, [NoCall EXCEPT !.op = "deductGuestCredits",
                                     !.guestUserId = g, !.amount = amount])
         /\ IF amount < 0
            THEN Reject(p, "invalid_amount")
            ELSE /\ fn' = [fn EXCEPT ![p] =
                             [NoFn EXCEPT !.name = "deductGuestCredits",
                                          !.amount = Round2(amount),
                                          !.txStart = now]]
                 /\ pc' = [pc EXCEPT ![p] = "guestDeduct"]
                 /\ UNCHANGED result
    /\ UNCHANGED <<sessionVars, now, dbVars, staged, sweep>>

GuestInsufficientInverted(currentBalance, roundedAmount) ==
    currentBalance > roundedAmount

\* lines 276 and 314
GuestInsufficientCredits(currentBalance, roundedAmount) ==
    currentBalance < roundedAmount

\* the session as deductGuestCredits writes it back
DebitedSession(session, roundedAmount) ==
    [exists |-> TRUE,
     balance |-> ToFixed2(Round2(ParseFloat(session.balance) - roundedAmount)),
     expiresAt |-> session.expiresAt]

\* lines 260-284: the session is read from Redis and checked
GuestRedisGet(p) ==
    /\ pc[p] = "guestDeduct"
    /\ redis = "up"
    /\ LET sessionData == CacheGet(call[p].guestUserId)
           currentBalance == ParseFloat(sessionData.balance)
           roundedAmount == fn[p].amount
       IN  IF ~sessionData.exists
           THEN Return(p, "not_found", 0, {})
           ELSE IF GuestInsufficientCredits(currentBalance, roundedAmount)
           THEN Return(p, "insufficient", 0, {currentBalance})
           ELSE /\ fn' = [fn EXCEPT ![p].session =
                            DebitedSession(sessionData, roundedAmount)]
                /\ pc' = [pc EXCEPT ![p] = "guestSet"]
                /\ UNCHANGED <<result, sweep>>
    /\ UNCHANGED <<sessionVars, now, dbVars, call, staged>>

\* lines 286-292: the session is written back with a new EX of 24 hours
GuestRedisSet(p) ==
    /\ pc[p] = "guestSet"
    /\ guestCache' = [guestCache EXCEPT ![call[p].guestUserId] =
                        [exists |-> TRUE,
                         balance |-> fn[p].session.balance,
                         expiresAt |-> fn[p].session.expiresAt,
                         expiry |-> now + GuestTtl]]
    /\ Return(p, "ok", 0, {ParseFloat(fn[p].session.balance)})
    /\ UNCHANGED <<redis, guestSession, registering, userEmail, limiter, listing, now, dbVars, call,
                   staged>>

\* lines 295-335, without Redis: one transaction that locks the GuestSession
\* row with its first statement, checks and updates it.  No other statement
\* of the program updates or deletes such a row, so the transaction is
\* taken as one step
GuestDbDeduct(p) ==
    /\ pc[p] = "guestDeduct"
    /\ redis = "none"
    /\ LET g == call[p].guestUserId
           session == guestSession[g]
           currentBalance == ParseFloat(session.balance)
           roundedAmount == fn[p].amount
       IN  IF ~session.exists
           THEN /\ Return(p, "not_found", 0, {})
                /\ UNCHANGED guestSession
           ELSE IF GuestInsufficientCredits(currentBalance, roundedAmount)
           THEN /\ Return(p, "insufficient", 0, {currentBalance})
                /\ UNCHANGED guestSession
           ELSE /\ guestSession' = [guestSession EXCEPT ![g] =
                                      DebitedSession(session, roundedAmount)]
                /\ Return(p, "ok", 0,
                          {Round2(currentBalance - roundedAmount)})
    /\ UNCHANGED <<redis, guestCache, registering, userEmail, limiter, listing, now, dbVars, call,
                   staged>>

\* lines 336-345: Redis cannot be reached, or the transaction fails
GuestDeductFails(p) ==
    /\ pc[p] \in {"guestDeduct", "guestSet"}
    /\ redis = "up" => pc[p] = "guestSet"
    /\ Return(p, "db_error", 0, {})
    /\ UNCHANGED <<sessionVars, now, dbVars, call, staged>>

\* ---------------------------------------------------- guest migration
\* the CreditBalance row of a principal: no statement of the program inserts
\* one for a guest user
BalanceRowOf(id) == IF id \in Users THEN creditBalance[id] ELSE NoRow

\* the row locks the transaction of p holds
LocksOf(p) == {u \in Users : lock[u] = p}

ReleaseLocks(p) == [u \in Users |-> IF lock[u] = p THEN 0 ELSE lock[u]]

\* migrateGuestToUser, lines 92-103: the transaction is opened (the update
\* of the chats is not modelled)
CallMigrateGuestToUser(p) ==
    /\ pc[p] = "idle"
    /\ \E g \in Users \cup Guests, u \in Users :
         /\ g # u
         /\ Arrive(p, [NoCall EXCEPT !.op = "migrateGuestToUser",
                                     !.userId = u, !.guestUserId = g])
         /\ fn' = [fn EXCEPT ![p] =
                     [NoFn EXCEPT !.name = "migrateGuestToUser",
                                  !.userId = u, !.txStart = now]]
    /\ pc' = [pc EXCEPT ![p] = "migrateRead"]
    /\ UNCHANGED <<sessionVars, now, dbVars, staged, result, sweep>>

\* lines 110-118: the balance row of the guest is read, without a lock
MigrateRead(p) ==
    /\ pc[p] = "migrateRead"
    /\ LET guestBalance == BalanceRowOf(call[p].guestUserId)
           guestCredits == ParseFloat(guestBalance.balance)
       IN  IF ~guestBalance.exists
           THEN Return(p, "ok", 0, {})
           ELSE /\ fn' = [fn EXCEPT ![p].amount = guestCredits]
                /\ pc' = [pc EXCEPT ![p] =
                            IF guestCredits > 0 THEN "migrateLock"
                                                ELSE "migrateDelete"]
                /\ UNCHANGED <<result, sweep>>
    /\ UNCHANGED <<sessionVars, now, dbVars, call, staged>>

\* lines 120-138: the balance row of the user is locked and, when there is
\* one, written; no CreditTransaction row is inserted
MigrateLockUser(p) ==
    /\ pc[p] = "migrateLock"
    /\ LET u == call[p].userId
           userBalance == creditBalance[u]
           guestCredits == fn[p].amount
           currentBalance == ParseFloat(userBalance.balance)
           newBalance == Round2(currentBalance + guestCredits)
       IN  IF ~userBalance.exists
           THEN UNCHANGED <<staged, lock>>
           ELSE /\ RowLockGranted(u, p)
                /\ staged' = [staged EXCEPT ![p] =
                                [active |-> TRUE,
                                 row |-> [userBalance EXCEPT
                                            !.balance = ToFixed2(newBalance)],
                                 tx |-> NoTx]]
                /\ lock' = [lock EXCEPT ![u] = p]
    /\ pc' = [pc EXCEPT ![p] = "migrateDelete"]
    /\ UNCHANGED <<sessionVars, now, creditBalance, creditTransaction,
                   subscriptionPlan, userPurchase, plansCache, call, fn,
                   result, sweep>>

\* lines 142-144: DELETE FROM CreditBalance WHERE userId = guestUserId waits
\* for the row when another transaction holds it
MigrateDelete(p) ==
    /\ pc[p] = "migrateDelete"
    /\ LET g == call[p].guestUserId IN
       IF BalanceRowOf(g).exists
       THEN /\ RowLockGranted(g, p)
            /\ lock' = [lock EXCEPT ![g] = p]
       ELSE UNCHANGED lock
    /\ pc' = [pc EXCEPT ![p] = "migrateCommit"]
    /\ UNCHANGED <<sessionVars, now, creditBalance, creditTransaction,
                   subscriptionPlan, userPurchase, plansCache, call, fn,
                   staged, result, sweep>>

\* line 146: the transaction commits
MigrateCommit(p) ==
    /\ pc[p] = "migrateCommit"
    /\ creditBalance' =
         [id \in Users |->
            IF id = call[p].guestUserId /\ lock[id] = p THEN NoRow
            ELSE IF id = call[p].userId /\ staged[p].active THEN staged[p].row
            ELSE creditBalance[id]]
    /\ lock' = ReleaseLocks(p)
    /\ staged' = [staged EXCEPT ![p] = NoStage]
    /\ Return(p, "ok", 0, {})
    /\ UNCHANGED <<sessionVars, now, creditTransaction, subscriptionPlan,
                   userPurchase, plansCache, call>>

\* lines 147-153: the transaction fails and is rolled back
MigrateRollback(p) ==
    /\ pc[p] \in {"migrateRead", "migrateLock", "migrateDelete",
                  "migrateCommit"}
    /\ lock' = ReleaseLocks(p)
    /\ staged' = [staged EXCEPT ![p] = NoStage]
    /\ Return(p, "db_error", 0, {})
    /\ UNCHANGED <<sessionVars, now, creditBalance, creditTransaction,
                   subscriptionPlan, userPurchase, plansCache, call>>

\* the row whose lock the next statement of p asks for
AwaitedRow(p) ==
    CASE pc[p] = "lock" -> fn[p].userId
      [] pc[p] = "migrateLock" -> call[p].userId
      [] pc[p] = "migrateDelete" -> call[p].guestUserId
      [] OTHER -> ""

\* the transaction p waits for, 0 when p does not wait
WaitsFor(p) ==
    LET id == AwaitedRow(p) IN
    IF id \in Users /\ creditBalance[id].exists /\ lock[id] \notin {0, p}
    THEN lock[id]
    ELSE 0

RECURSIVE WaitChain(_, _)
WaitChain(p, n) ==
    IF n = 0 \/ p = 0 THEN p ELSE WaitChain(WaitsFor(p), n - 1)

\* p waits for a lock held by a transaction that waits, directly or not,
\* for a lock p holds
InWaitCycle(p) == \E n \in 1..NumProcs : WaitChain(p, n) = p

\* PostgreSQL finds the transaction of p in a cycle of lock waits and aborts
\* it: db.transaction rejects and the catch block (part_004 lines 147-153)
\* throws "Failed to migrate guest session to user account"
DeadlockVictim(p) ==
    /\ InWaitCycle(p)
    /\ lock' = ReleaseLocks(p)
    /\ staged' = [staged EXCEPT ![p] = NoStage]
    /\ Return(p, "db_error", 0, {})
    /\ UNCHANGED <<sessionVars, now, creditBalance, creditTransaction,
                   subscriptionPlan, userPurchase, plansCache, call>>

\* ----------------------------------------------------------- monthly sweep
UserOrder == <<"u1", "u2">>

\* getAllAuthenticatedUsers: the balance rows joined with their users, those
\* whose email starts with "guest-" filtered out
getAllAuthenticatedUsers ==
    SelectSeq(UserOrder,
              LAMBDA u : /\ creditBalance[u].exists
                         /\ ~startsWith(userEmail[u], GuestPrefix))

\* a pre-check that only looks for the balance row
EligibleWheneverRowExists(u, t) == creditBalance[u].exists

\* isEligibleForMonthlyAllocation
isEligibleForMonthlyAllocation(u, t) ==
    /\ creditBalance[u].exists
    /\ ~AllocatedThisMonth(creditBalance[u], t)

\* processMonthlyAllocations, lines 109-123
CallProcessMonthlyAllocations(p) ==
    /\ pc[p] = "idle"
    /\ Arrive(p, [NoCall EXCEPT !.op = "processMonthlyAllocations"])
    /\ LET userIds == getAllAuthenticatedUsers IN
       /\ sweep' = [sweep EXCEPT ![p] =
                      [NoSweep EXCEPT !.todo = userIds,
                                      !.totalUsers = Len(userIds)]]
       /\ pc' = [pc EXCEPT ![p] = IF userIds = <<>> THEN "done" ELSE "check"]
       /\ result' = [result EXCEPT ![p] =
                       IF userIds = <<>>
                       THEN [NoResult EXCEPT !.status = "ok"]
                       ELSE @]
    /\ UNCHANGED <<sessionVars, now, dbVars, fn, staged>>

\* processMonthlyAllocations, lines 125-138: the pre-check of one user
SweepCheck(p) ==
    /\ pc[p] = "check"
    /\ LET s == sweep[p]
           u == Head(s.todo)
       IN  IF ~isEligibleForMonthlyAllocation(u, now)
           THEN LET s2 == [s EXCEPT !.outcome[u] = "skipped",
                                       !.todo = Tail(@)] IN
                /\ sweep' = [sweep EXCEPT ![p] = s2]
                /\ pc' = [pc EXCEPT ![p] =
                            IF s2.todo = <<>> THEN "done" ELSE "check"]
                /\ result' = [result EXCEPT ![p] =
                                IF s2.todo = <<>>
                                THEN [NoResult EXCEPT !.status = "ok"]
                                ELSE @]
                /\ UNCHANGED fn
           ELSE /\ sweep' = [sweep EXCEPT ![p] =
                               [s EXCEPT !.eligibleUsers = @ + 1,
                                         !.outcome[u] = "eligible"]]
                /\ EnterLedger(p, "allocateMonthlyCredits", u, 0, "", 0)
                /\ UNCHANGED result
    /\ UNCHANGED <<sessionVars, now, dbVars, call, staged>>

\* ------------------------------------------------------------- environment
\* a day passes
Tick ==
    /\ now < MaxTime
    /\ now' = now + 1
    /\ UNCHANGED <<sessionVars, dbVars, procVars>>

\* register, lines 82-88: the balance row of a new account
RegisterInsertBalance(u) ==
    /\ u \in registering
    /\ registering' = registering \ {u}
    /\ creditBalance' = [creditBalance EXCEPT ![u] = FreshRow]
    /\ UNCHANGED <<redis, guestCache, guestSession, userEmail, limiter, listing, now,
                   creditTransaction, subscriptionPlan, userPurchase,
                   plansCache, lock, procVars>>

\* cleanupPlans: the plans older than the Free plan are deactivated; the
\* cache is left as it is
CleanupPlans ==
    /\ subscriptionPlan["legacy"].isActive
    /\ subscriptionPlan' = [subscriptionPlan EXCEPT !["legacy"].isActive = FALSE]
    /\ UNCHANGED <<sessionVars, now, creditBalance, creditTransaction, userPurchase,
                   plansCache, lock, procVars>>

\* the active plans, ascending by credits
RECURSIVE SortByCredits(_)
SortByCredits(ids) ==
    IF ids = {} THEN <<>>
    ELSE LET least == CHOOSE id \in ids :
                        \A other \in ids :
                          subscriptionPlan[id].credits
                            <= subscriptionPlan[other].credits
         IN <<[id |-> least, plan |-> subscriptionPlan[least]]>>
              \o SortByCredits(ids \ {least})

ActivePlans ==
    SortByCredits({id \in PlanIds : subscriptionPlan[id].exists
                                      /\ subscriptionPlan[id].isActive})

\* getAvailablePlans on a cache miss: the listing is read and cached
GetAvailablePlansMiss ==
    /\ redis = "up"
    /\ plansCache = <<>>
    /\ ActivePlans # <<>>
    /\ plansCache' = <<ActivePlans>>
    /\ UNCHANGED <<sessionVars, now, creditBalance, creditTransaction, subscriptionPlan,
                   userPurchase, lock, procVars>>

\* ------------------------------------------------------- calculateCredits
\* a price of one credit per 10 characters
calculateCreditsPerTen(text) ==
    LET characterCount == Len(text)
        rawCredits == (characterCount * 1000) \div 10
        roundedCredits == Round2(rawCredits)
    IN  IF roundedCredits < 0 THEN 0 ELSE roundedCredits

\* calculateCredits, lines 51-63, the result a JavaScript number
calculateCredits(text) ==
    LET characterCount == Len(text)
        rawCredits == (characterCount * 1000) \div 20
        roundedCredits == Round2(rawCredits)
    IN  IF roundedCredits < 0 THEN 0 ELSE roundedCredits

\* a caller prices a text
CallCalculateCredits(p) ==
    /\ pc[p] = "idle"
    /\ \E text \in Texts :
         /\ Arrive(p, [NoCall EXCEPT !.op = "calculateCredits",
                                     !.text = text])
         /\ Return(p, "ok", 0, {calculateCredits(text)})
    /\ UNCHANGED <<sessionVars, now, dbVars, staged>>

\* ------------------------------------------------------------ rate limiter
\* InMemoryStore.increment, lines 36-60, at time t; with cleanup, the expired
\* entries of the other keys are deleted
InMemoryIncrement(store, key, windowMs, t, cleanup) ==
    LET existing == store[key]
        entry == IF existing.exists /\ existing.resetTime > t
                 THEN [existing EXCEPT !.count = @ + 1]
                 ELSE [exists |-> TRUE, count |-> 1, resetTime |-> t + windowMs]
    IN  [k \in RateLimitKeys |->
           IF k = key THEN entry
           ELSE IF cleanup /\ store[k].exists /\ store[k].resetTime <= t
           THEN NoEntry
           ELSE store[k]]

\* RedisStore.increment, lines 75-94: MULTI, INCR key, EXPIRE key ttlSeconds,
\* EXEC.  A key is gone once its expiry has elapsed
RedisIncrement(keys, key, windowMs, t) ==
    LET live == keys[key].exists /\ t < keys[key].expiry IN
    [keys EXCEPT ![key] =
       [exists |-> TRUE,
        count |-> IF live THEN keys[key].count + 1 ELSE 1,
        expiry |-> t + windowMs]]

\* the window of a key after a request at time t
WindowAfter(w, windowMs, t) ==
    IF w.open /\ t < w.start + windowMs
    THEN [w EXCEPT !.n = @ + 1]
    ELSE [open |-> TRUE, start |-> t, n |-> 1]

\* the answer of rateLimit, lines 147-165
RateLimitAnswer(key, count, resetTime, config) ==
    [key |-> key, count |-> count, resetTime |-> resetTime,
     status |-> IF count > config.maxRequests THEN "429" ELSE "pass"]

\* rateLimit(config)(req), lines 130-175, with the store getStore() gives:
\* InMemoryStore without REDIS_URL, RedisStore with it; when the store
\* throws, the request is let through
RateLimit(path, id) ==
    /\ limiter.sent < MaxSent
    /\ LET key == <<path, id>>
           config == RateLimitConfig
           t == limiter.clock
           window == [limiter.window EXCEPT
                        ![key] = WindowAfter(@, config.windowMs, t)]
       IN  CASE redis = "none" ->
                  \E cleanup \in BOOLEAN :
                    LET store == InMemoryIncrement(limiter.memory, key,
                                                   config.windowMs, t, cleanup)
                    IN  limiter' =
                          [limiter EXCEPT
                             !.memory = store,
                             !.window = window,
                             !.last = RateLimitAnswer(key, store[key].count,
                                                      store[key].resetTime,
                                                      config),
                             !.sent = @ + 1]
             [] redis = "up" ->
                  LET keys == RedisIncrement(limiter.counters, key,
                                             config.windowMs, t)
                  IN  limiter' =
                        [limiter EXCEPT
                           !.counters = keys,
                           !.window = window,
                           !.last = RateLimitAnswer(key, keys[key].count,
                                                    t + config.windowMs,
                                                    config),
                           !.sent = @ + 1]
             [] OTHER ->
                  limiter' =
                    [limiter EXCEPT
                       !.window = window,
                       !.last = [key |-> key, count |-> 0, resetTime |-> 0,
                                 status |-> "pass"],
                       !.sent = @ + 1]
    /\ UNCHANGED <<redis, guestCache, guestSession, registering, userEmail,
                   listing, now, dbVars, procVars>>

\* Date.now() moves on
ClockTick ==
    /\ limiter.clock < MaxClock
    /\ limiter' = [limiter EXCEPT !.clock = @ + 1]
    /\ UNCHANGED <<redis, guestCache, guestSession, registering, userEmail,
                   listing, now, dbVars, procVars>>

\* ---------------------------------------------------------------- history
\* the sequences that hold each element of ids once
RECURSIVE Orders(_)
Orders(ids) ==
    IF ids = {} THEN {<<>>}
    ELSE UNION {{<<i>> \o rest : rest \in Orders(ids \ {i})} : i \in ids}

\* ORDER BY createdAt DESC over the rows ids of a table: any order in which
\* createdAt never increases; rows of equal createdAt come in either order
OrderByCreatedAtDesc(table, ids) ==
    {order \in Orders(ids) :
       \A i, j \in 1..Len(order) :
         i < j => table[order[i]].createdAt >= table[order[j]].createdAt}

\* a page that starts with the first row whatever the offset
LimitOffsetFromStart(order, limit, offset) ==
    [k \in 1..IF Len(order) < limit THEN Len(order) ELSE limit |-> order[k]]

\* LIMIT limit OFFSET offset
LimitOffset(order, limit, offset) ==
    [k \in 1..IF Len(order) - offset < limit
              THEN IF Len(order) < offset THEN 0 ELSE Len(order) - offset
              ELSE limit
     |-> order[offset + k]]

\* the pagination checks of the history routes: transactionHistoryQuerySchema
\* and historyQuerySchema, part_012 lines 30-43
ValidPagination(limit, offset) ==
    /\ limit >= 1
    /\ limit <= MaxPageLimit
    /\ offset >= 0

\* GET /api/credits/transactions for a registered user, route.ts lines
\* 8-96: the query is validated, getTransactionHistory (lines 621-645)
\* selects the page, the response reports total = the length of the page.
\* listing is the page as row numbers, seen holds the total reported
GetTransactions(p) ==
    /\ pc[p] = "idle"
    /\ \E u \in Users, limit \in PageLimits, offset \in PageOffsets :
         /\ Arrive(p, [NoCall EXCEPT !.op = "GET /api/credits/transactions",
                                     !.userId = u, !.limit = limit,
                                     !.offset = offset])
         /\ IF ~ValidPagination(limit, offset)
            THEN /\ Reject(p, "invalid_pagination")
                 /\ UNCHANGED <<listing, sweep>>
            ELSE \E order \in OrderByCreatedAtDesc(
                                creditTransaction,
                                {i \in 1..Len(creditTransaction) :
                                   creditTransaction[i].userId = u}) :
                   LET transactions == LimitOffset(order, limit, offset) IN
                   /\ listing' = [listing EXCEPT ![p] = transactions]
                   /\ Return(p, "ok", 0, {Len(transactions)})
    /\ UNCHANGED <<redis, guestCache, guestSession, registering, userEmail, limiter,
                   now, dbVars, staged>>

\* GET /api/payments/history for a registered user, route.ts lines 20-100,
\* with getPurchaseHistory (payment-service.ts lines 217-240)
GetPurchaseHistory(p) ==
    /\ pc[p] = "idle"
    /\ \E u \in Users, limit \in PageLimits, offset \in PageOffsets :
         /\ Arrive(p, [NoCall EXCEPT !.op = "GET /api/payments/history",
                                     !.userId = u, !.limit = limit,
                                     !.offset = offset])
         /\ IF ~ValidPagination(limit, offset)
            THEN /\ Reject(p, "invalid_pagination")
                 /\ UNCHANGED <<listing, sweep>>
            ELSE \E order \in OrderByCreatedAtDesc(
                                userPurchase,
                                {i \in 1..Len(userPurchase) :
                                   userPurchase[i].userId = u}) :
                   LET purchases == LimitOffset(order, limit, offset) IN
                   /\ listing' = [listing EXCEPT ![p] = purchases]
                   /\ Return(p, "ok", 0, {Len(purchases)})
    /\ UNCHANGED <<redis, guestCache, guestSession, registering, userEmail, limiter,
                   now, dbVars, staged>>

\* getAvailablePlans, lines 54-56
CallGetAvailablePlans(p) ==
    /\ pc[p] = "idle"
    /\ Arrive(p, [NoCall EXCEPT !.op = "getAvailablePlans"])
    /\ pc' = [pc EXCEPT ![p] = "plansGet"]
    /\ UNCHANGED <<sessionVars, now, dbVars, fn, staged, result, sweep>>

\* lines 56-65: with Redis, the cached listing is returned when there is one
GetAvailablePlansCached(p) ==
    /\ pc[p] = "plansGet"
    /\ IF redis = "down"
       THEN /\ Return(p, "db_error", 0, {})
            /\ UNCHANGED listing
       ELSE IF redis = "up" /\ plansCache # <<>>
       THEN /\ listing' = [listing EXCEPT ![p] = plansCache[1]]
            /\ Return(p, "ok", 0, {})
       ELSE /\ pc' = [pc EXCEPT ![p] = "plansSelect"]
            /\ UNCHANGED <<listing, fn, result, sweep>>
    /\ UNCHANGED <<redis, guestCache, guestSession, registering, userEmail, limiter,
                   now, dbVars, call, staged>>

\* lines 67-72: the active plans are selected, ascending by credits
GetAvailablePlansSelect(p) ==
    /\ pc[p] = "plansSelect"
    /\ listing' = [listing EXCEPT ![p] = ActivePlans]
    /\ IF redis = "up" /\ ActivePlans # <<>>
       THEN /\ pc' = [pc EXCEPT ![p] = "plansSet"]
            /\ UNCHANGED <<fn, result, sweep>>
       ELSE Return(p, "ok", 0, {})
    /\ UNCHANGED <<redis, guestCache, guestSession, registering, userEmail, limiter,
                   now, dbVars, call, staged>>

\* lines 74-82: the listing read is cached and returned
GetAvailablePlansSet(p) ==
    /\ pc[p] = "plansSet"
    /\ plansCache' = <<listing[p]>>
    /\ Return(p, "ok", 0, {})
    /\ UNCHANGED <<sessionVars, now, creditBalance, creditTransaction,
                   subscriptionPlan, userPurchase, lock, call, staged>>

\* clear-cache.ts, lines 8-40: the key is deleted
ClearCache ==
    /\ redis = "up"
    /\ plansCache # <<>>
    /\ plansCache' = <<>>
    /\ UNCHANGED <<sessionVars, now, creditBalance, creditTransaction,
                   subscriptionPlan, userPurchase, lock, procVars>>

\* the steps of getAvailablePlans
CatalogStep(p) ==
    \/ CallGetAvailablePlans(p)
    \/ GetAvailablePlansCached(p)
    \/ GetAvailablePlansSelect(p)
    \/ GetAvailablePlansSet(p)

\* ------------------------------------------------------------ specification
\* the steps of the guest balance route and of deductGuestCredits
GuestStep(p) ==
    \/ CallGuestBalance(p)
    \/ GetGuestBalance(p)
    \/ InitializeGuestSession(p)
    \/ CallDeductGuestCredits(p)
    \/ GuestRedisGet(p)
    \/ GuestRedisSet(p)
    \/ GuestDbDeduct(p)
    \/ GuestDeductFails(p)

\* the steps of migrateGuestToUser
MigrationStep(p) ==
    \/ CallMigrateGuestToUser(p)
    \/ MigrateRead(p)
    \/ MigrateLockUser(p)
    \/ MigrateDelete(p)
    \/ MigrateCommit(p)
    \/ MigrateRollback(p)

\* the steps of the ledger functions called directly
LedgerStep(p) ==
    \/ CallDeductCredits(p)
    \/ CallAddCredits(p)
    \/ CallAllocateNewUserBonus(p)
    \/ CallAllocateMonthlyCredits(p)
    \/ DeductCreditsLocked(p)
    \/ AddCreditsLocked(p)
    \/ AllocateNewUserBonusLocked(p)
    \/ AllocateMonthlyCreditsLocked(p)
    \/ Commit(p)
    \/ Rollback(p)
    \/ LockWaitTimeout(p)

\* the steps of processPurchase that are its own
PurchaseStep(p) ==
    \/ CallProcessPurchase(p)
    \/ ProcessPurchaseTx(p)
    \/ ProcessPurchaseTxFails(p)

\* the steps of processMonthlyAllocations that are its own
SweepStep(p) ==
    \/ CallProcessMonthlyAllocations(p)
    \/ SweepCheck(p)

\* the whole program
Next ==
    \/ \E p \in Procs : LedgerStep(p) \/ PurchaseStep(p) \/ SweepStep(p)
    \/ \E p \in Procs : PostCreditsDeduct(p) \/ PostDeduct(p) \/ CatalogStep(p)
    \/ \E p \in Procs : RouteGetBalance(p)
    \/ ClearCache
    \/ \E p \in Procs : GetTransactions(p) \/ GetPurchaseHistory(p)
    \/ \E p \in Procs : CallCalculateCredits(p)
    \/ \E path \in Paths, id \in ClientIds : RateLimit(path, id)
    \/ ClockTick
    \/ \E p \in Procs : MigrationStep(p) \/ GuestStep(p)
    \/ \E p \in Procs : DeadlockVictim(p)
    \/ Tick
    \/ \E u \in Users : RegisterInsertBalance(u)
    \/ CleanupPlans
    \/ GetAvailablePlansMiss

Spec == Init /\ [][Next]_vars

\* the ledger functions alone, called concurrently within one day
NextLedger ==
    \/ \E p \in Procs : LedgerStep(p)
    \/ \E u \in Users : RegisterInsertBalance(u)

SpecLedger == Init /\ [][NextLedger]_vars

\* the ledger functions and purchases within one day, the catalog left as
\* it is
NextAccounts ==
    \/ \E p \in Procs : LedgerStep(p) \/ PurchaseStep(p)
    \/ \E u \in Users : RegisterInsertBalance(u)

SpecAccounts == Init /\ [][NextAccounts]_vars

\* purchases and debits, the catalog being edited and cached meanwhile
NextPurchase ==
    \/ \E p \in Procs :
         \/ PurchaseStep(p)
         \/ CallDeductCredits(p)
         \/ DeductCreditsLocked(p)
         \/ AddCreditsLocked(p)
         \/ Commit(p)
         \/ Rollback(p)
         \/ LockWaitTimeout(p)
    \/ \E u \in Users : RegisterInsertBalance(u)
    \/ CleanupPlans
    \/ GetAvailablePlansMiss

SpecPurchase == Init /\ [][NextPurchase]_vars

\* monthly sweeps and direct monthly allocations, over the months
NextSweep ==
    \/ \E p \in Procs :
         \/ SweepStep(p)
         \/ CallAllocateMonthlyCredits(p)
         \/ AllocateMonthlyCreditsLocked(p)
         \/ Commit(p)
         \/ Rollback(p)
         \/ LockWaitTimeout(p)
    \/ Tick
    \/ \E u \in Users : RegisterInsertBalance(u)

SpecSweep == Init /\ [][NextSweep]_vars

\* new users receiving their bonus while the monthly sweep runs, within the
\* month of registration
NextOnboarding ==
    \/ \E p \in Procs :
         \/ CallAllocateNewUserBonus(p)
         \/ AllocateNewUserBonusLocked(p)
         \/ SweepStep(p)
         \/ AllocateMonthlyCreditsLocked(p)
         \/ Commit(p)
         \/ Rollback(p)
         \/ LockWaitTimeout(p)
    \/ \E u \in Users : RegisterInsertBalance(u)

SpecOnboarding == Init /\ [][NextOnboarding]_vars

\* monthly sweeps and direct monthly allocations, one request after the
\* other, started anywhere in the first two years
NextCalendar ==
    \/ \E p \in Procs :
         /\ \A q \in Procs \ {p} : pc[q] \in {"idle", "done"}
         /\ \/ SweepStep(p)
            \/ CallAllocateMonthlyCredits(p)
            \/ AllocateMonthlyCreditsLocked(p)
            \/ Commit(p)
            \/ Rollback(p)
    \/ Tick

SpecCalendar == InitCalendar /\ [][NextCalendar]_vars

\* u2 registered under one address or the other, which both pass the
\* email check of register()
InitDirectory ==
    /\ InitLedger
    /\ userEmail \in {e \in [Users -> {AdaEmail, BobEmail, GuestFanEmail}] :
                        e["u1"] = AdaEmail /\ e["u2"] # AdaEmail}
    /\ redis = "up"
    /\ guestCache = [g \in Guests |-> NoGuestKey]
    /\ guestSession = [g \in Guests |-> NoGuestRow]

\* registrations and sweeps within one day
NextDirectory ==
    \/ \E p \in Procs :
         \/ SweepStep(p)
         \/ AllocateMonthlyCreditsLocked(p)
         \/ Commit(p)
         \/ Rollback(p)
         \/ LockWaitTimeout(p)
    \/ \E u \in Users : RegisterInsertBalance(u)

SpecDirectory == InitDirectory /\ [][NextDirectory]_vars

\* debits that come through the two deduct routes, and credits
NextRoutes ==
    \/ \E p \in Procs :
         \/ PostCreditsDeduct(p)
         \/ PostDeduct(p)
         \/ RouteGetBalance(p)
         \/ CallAddCredits(p)
         \/ DeductCreditsLocked(p)
         \/ AddCreditsLocked(p)
         \/ Commit(p)
         \/ Rollback(p)
         \/ LockWaitTimeout(p)
    \/ \E u \in Users : RegisterInsertBalance(u)

SpecRoutes == Init /\ [][NextRoutes]_vars

\* listings of the catalog within one day, Redis being there or not, while
\* plans are deactivated and the cache is cleared by hand
InitCatalog ==
    /\ InitLedger
    /\ userEmail = RegisteredEmails
    /\ redis \in {"none", "up", "down"}
    /\ guestCache = [g \in Guests |-> NoGuestKey]
    /\ guestSession = [g \in Guests |-> NoGuestRow]

NextCatalog ==
    \/ \E p \in Procs : CatalogStep(p)
    \/ CleanupPlans
    \/ ClearCache

SpecCatalog == InitCatalog /\ [][NextCatalog]_vars

\* u1 has also bought the plan "legacy" on day 0
InitPages ==
    /\ now = 0
    /\ creditBalance =
         [u \in Users |->
            IF u = "u1"
            THEN [exists |-> TRUE, balance |-> 11000, isNewUser |-> FALSE,
                  lastMonthlyAllocation |-> {}]
            ELSE NoRow]
    /\ creditTransaction =
         Append(SeedTransactions,
                [userId |-> "u1", type |-> "purchase", amount |-> 10000,
                 balanceAfter |-> 11000, createdAt |-> 0, purchaseId |-> 1,
                 call |-> 0, at |-> 0])
    /\ InitPlansAndRequests
    /\ registering = {"u2"}
    /\ userPurchase =
         << [userId |-> "u1", planId |-> "legacy", creditsAdded |-> 10000,
             amountPaid |-> 100, status |-> "completed", createdAt |-> 0,
             call |-> 0] >>
    /\ userEmail = RegisteredEmails
    /\ redis = "up"
    /\ guestCache = [g \in Guests |-> NoGuestKey]
    /\ guestSession = [g \in Guests |-> NoGuestRow]

\* purchases and credits over the days, and requests for the two histories
NextPages ==
    \/ \E p \in Procs :
         \/ GetTransactions(p)
         \/ GetPurchaseHistory(p)
         \/ PurchaseStep(p)
         \/ AddCreditsLocked(p)
         \/ Commit(p)
         \/ Rollback(p)
         \/ LockWaitTimeout(p)
    \/ Tick

SpecPages == InitPages /\ [][NextPages]_vars

\* every ledger function and purchases for both users within one day, u1
\* with a purchase behind it, and requests for the two histories
NextIsolation ==
    \/ \E p \in Procs : LedgerStep(p) \/ PurchaseStep(p)
    \/ \E p \in Procs : GetTransactions(p) \/ GetPurchaseHistory(p)
    \/ \E u \in Users : RegisterInsertBalance(u)

SpecIsolation == InitPages /\ [][NextIsolation]_vars

\* the rate limiter alone, in a deployment without Redis, with Redis, or
\* with a Redis that cannot be reached
InitRateLimit ==
    /\ InitLedger
    /\ userEmail = RegisteredEmails
    /\ redis \in {"none", "up", "down"}
    /\ guestCache = [g \in Guests |-> NoGuestKey]
    /\ guestSession = [g \in Guests |-> NoGuestRow]

NextRateLimit ==
    \/ \E path \in Paths, id \in ClientIds : RateLimit(path, id)
    \/ ClockTick

SpecRateLimit == InitRateLimit /\ [][NextRateLimit]_vars

\* both accounts hold credits: u2 registered on day 0 and was credited 5.00
InitTwoAccounts ==
    /\ now = 0
    /\ creditBalance =
         [u \in Users |->
            IF u = "u1"
            THEN [exists |-> TRUE, balance |-> 1000, isNewUser |-> FALSE,
                  lastMonthlyAllocation |-> {}]
            ELSE [FreshRow EXCEPT !.balance = 500]]
    /\ creditTransaction =
         Append(SeedTransactions,
                [userId |-> "u2", type |-> "bonus", amount |-> 500,
                 balanceAfter |-> 500, createdAt |-> 0, purchaseId |-> 0,
                 call |-> 0, at |-> 0])
    /\ InitPlansAndRequests
    /\ userPurchase = <<>>
    /\ registering = {}
    /\ userEmail = RegisteredEmails
    /\ redis = "up"
    /\ guestCache = [g \in Guests |-> NoGuestKey]
    /\ guestSession = [g \in Guests |-> NoGuestRow]

\* every ledger operation, started concurrently within one day
NextContention ==
    \/ \E p \in Procs : LedgerStep(p) \/ PurchaseStep(p) \/ MigrationStep(p)
    \/ \E p \in Procs : DeadlockVictim(p)

\* the next statement of a request that is not waiting for a lock is
\* executed and answered in the end
RequestProgress(p) ==
    \/ DeductCreditsLocked(p)
    \/ AddCreditsLocked(p)
    \/ AllocateNewUserBonusLocked(p)
    \/ AllocateMonthlyCreditsLocked(p)
    \/ Commit(p)
    \/ ProcessPurchaseTx(p)
    \/ MigrateRead(p)
    \/ MigrateLockUser(p)
    \/ MigrateDelete(p)
    \/ MigrateCommit(p)

\* requests make progress, failures may or may not happen, and the database
\* ends every cycle of lock waits
SpecContention ==
    /\ InitTwoAccounts
    /\ [][NextContention]_vars
    /\ \A p \in Procs : WF_vars(RequestProgress(p))
    /\ WF_vars(\E p \in Procs : DeadlockVictim(p))

\* every writer of balance rows, over the months; u2 registers without
\* credits, so two requests form no cycle of lock waits
NextRows ==
    \/ \E p \in Procs : LedgerStep(p) \/ PurchaseStep(p) \/ MigrationStep(p)
    \/ Tick
    \/ \E u \in Users : RegisterInsertBalance(u)

SpecRows == Init /\ [][NextRows]_vars

\* texts being priced
NextPricing == \E p \in Procs : CallCalculateCredits(p)

SpecPricing == Init /\ [][NextPricing]_vars

\* the sweeps again, every request that can take a step taking one in the
\* end: the loop of processMonthlyAllocations goes on, a statement sent to
\* the database is answered or times out
SweepRequestStep(p) ==
    \/ SweepCheck(p)
    \/ AllocateMonthlyCreditsLocked(p)
    \/ Commit(p)
    \/ LockWaitTimeout(p)

SpecSweepFair ==
    /\ SpecSweep
    /\ \A p \in Procs : WF_vars(SweepRequestStep(p))

\* debits and credits, their transactions spread over time
NextHistory ==
    \/ \E p \in Procs :
         \/ CallDeductCredits(p)
         \/ CallAddCredits(p)
         \/ DeductCreditsLocked(p)
         \/ AddCreditsLocked(p)
         \/ Commit(p)
         \/ Rollback(p)
         \/ LockWaitTimeout(p)
    \/ Tick

SpecHistory == Init /\ [][NextHistory]_vars

\* a deployment without Redis, with Redis, or with a Redis that cannot be
\* reached; the guest g1 has asked for its balance once, at time 0, and so
\* has a session of 200.00 where initializeGuestSession puts it
InitGuest ==
    /\ InitLedger
    /\ userEmail = RegisteredEmails
    /\ redis \in {"none", "up", "down"}
    /\ guestCache =
         [g \in Guests |->
            IF g = "g1" /\ redis = "up"
            THEN [exists |-> TRUE, balance |-> ToFixed2(Credits(GuestCredits)),
                  expiresAt |-> GuestTtl, expiry |-> GuestTtl]
            ELSE NoGuestKey]
    /\ guestSession =
         [g \in Guests |->
            IF g = "g1" /\ redis = "none"
            THEN [exists |-> TRUE, balance |-> ToFixed2(Credits(GuestCredits)),
                  expiresAt |-> GuestTtl]
            ELSE NoGuestRow]

\* guests asking for their balance and spending, over the days
NextGuest ==
    \/ \E p \in Procs : GuestStep(p)
    \/ Tick

SpecGuest == InitGuest /\ [][NextGuest]_vars

\* migrations of guests and of users, next to guests spending
NextGuestMigrate ==
    \/ \E p \in Procs :
         \/ MigrationStep(p)
         \/ CallDeductGuestCredits(p)
         \/ GuestRedisGet(p)
         \/ GuestRedisSet(p)
         \/ GuestDbDeduct(p)
         \/ GuestDeductFails(p)
    \/ \E u \in Users : RegisterInsertBalance(u)

SpecGuestMigrate == InitGuest /\ [][NextGuestMigrate]_vars

\* migrations next to debits and credits, within one day
NextMigrate ==
    \/ \E p \in Procs :
         \/ MigrationStep(p)
         \/ CallDeductCredits(p)
         \/ CallAddCredits(p)
         \/ DeductCreditsLocked(p)
         \/ AddCreditsLocked(p)
         \/ Commit(p)
         \/ Rollback(p)
         \/ LockWaitTimeout(p)
    \/ \E u \in Users : RegisterInsertBalance(u)

SpecMigrate == Init /\ [][NextMigrate]_vars

\* ================================================================ properties
Arrived == {p \in Procs : pc[p] # "idle"}
Quiescent == \A p \in Procs : pc[p] \in {"idle", "done"}
Accepted == {p \in Procs : pc[p] = "done" /\ result[p].status = "ok"}

TxIds == 1..Len(creditTransaction)
NewTxIds == (Len(SeedTransactions) + 1)..Len(creditTransaction)
PurchaseIds == 1..Len(userPurchase)

\* the transaction rows a request inserted
RowsBy(p) == {i \in TxIds : creditTransaction[i].call = p}
PurchasesBy(p) == {i \in PurchaseIds : userPurchase[i].call = p}

\* the balance of a user before the requests modelled here
SeedBalance(u) ==
    LET own == {i \in 1..Len(SeedTransactions) : SeedTransactions[i].userId = u}
    IN  IF own = {} THEN 0
        ELSE SeedTransactions[CHOOSE i \in own : \A j \in own : j <= i].balanceAfter

\* the amount of a deductCredits call as it is stored, in hundredths
DebitOf(p) == ToFixed2(Round2(call[p].amount))

RECURSIVE SumDebits(_)
SumDebits(S) ==
    IF S = {} THEN 0
    ELSE LET p == CHOOSE q \in S : TRUE IN DebitOf(p) + SumDebits(S \ {p})

\* every request so far was a deductCredits of a valid amount on u, and all
\* have returned
DebitRun(u) ==
    /\ Quiescent
    /\ \A p \in Arrived :
         /\ call[p].op = "deductCredits"
         /\ call[p].userId = u
         /\ call[p].amount >= 0

\* C1: concurrent deductCredits calls on one user lose no update.  After any
\* interleaving of such calls the balance is the initial balance minus the
\* amounts of the accepted calls, each accepted call has exactly one
\* 'deduction' row, no call is refused for insufficient credits when the
\* balance covers all the amounts together, and a call that is refused saw,
\* under the lock, the initial balance minus the amounts of some of the
\* accepted calls, which did not cover its own amount.
C1_ConcurrentDebits ==
    \A u \in Users :
      (DebitRun(u) /\ creditBalance[u].exists) =>
        LET ok == Accepted IN
        /\ creditBalance[u].balance = SeedBalance(u) - SumDebits(ok)
        /\ Cardinality({i \in NewTxIds :
                          /\ creditTransaction[i].userId = u
                          /\ creditTransaction[i].type = "deduction"})
             = Cardinality(ok)
        /\ \A p \in ok : Cardinality(RowsBy(p)) = 1
        /\ SumDebits(Arrived) <= SeedBalance(u) =>
             \A p \in Arrived : result[p].status \in {"ok", "db_error"}
        /\ \A p \in Arrived :
             result[p].status = "insufficient" =>
               \E S \in SUBSET ok :
                 /\ result[p].seen = {ParseFloat(SeedBalance(u) - SumDebits(S))}
                 /\ SeedBalance(u) - SumDebits(S) < DebitOf(p)

\* two debits of 5.00 against the balance of 10.00 were both accepted
C1_Witness ==
    /\ DebitRun("u1")
    /\ Cardinality(Accepted) = 2
    /\ creditBalance["u1"].balance = 0

\* C2: the stored balance of every user is never below 0.
C2_BalanceNonNegative ==
    \A u \in Users : creditBalance[u].balance >= 0

\* a debit was accepted, another was refused for insufficient credits
C2_Witness ==
    \E p, q \in Procs :
      /\ call[p].op = "deductCredits"
      /\ result[p].status = "ok"
      /\ call[q].op = "deductCredits"
      /\ result[q].status = "insufficient"
      /\ call[p].userId = call[q].userId

\* C3: a deductCredits call whose amount exceeds the balance it reads under
\* the row lock fails with the insufficient-credits error; that step leaves
\* the balance rows and the transaction log as they were, and the call has
\* no transaction row afterwards.
C3_InsufficientLeavesNoTrace ==
    /\ [][\A p \in Procs :
            LET u == fn[p].userId IN
            ( /\ pc[p] = "lock"
              /\ fn[p].name = "deductCredits"
              /\ creditBalance[u].exists
              /\ lock[u] = 0
              /\ ParseFloat(creditBalance[u].balance) < fn[p].amount
              /\ pc'[p] # "lock" )
            => /\ pc'[p] = "done"
               /\ result'[p].status = "insufficient"
               /\ creditBalance' = creditBalance
               /\ creditTransaction' = creditTransaction
               /\ lock' = lock
               /\ ~staged'[p].active]_vars
    /\ [](\A p \in Procs :
            result[p].status = "insufficient" =>
              /\ RowsBy(p) = {}
              /\ result[p].tx = 0)

\* the balance of 10.00 after a refused debit of 11.00
C3_Witness ==
    \E p \in Procs :
      /\ call[p].op = "deductCredits"
      /\ call[p].userId = "u1"
      /\ call[p].amount = 11000
      /\ result[p].status = "insufficient"
      /\ result[p].seen = {10000}
      /\ creditBalance["u1"].balance = 1000

\* the step appends exactly one transaction row, for u, whose balanceAfter is
\* the balance the step leaves in u's balance row
AppendsOneRowFor(u) ==
    /\ Len(creditTransaction') = Len(creditTransaction) + 1
    /\ SubSeq(creditTransaction', 1, Len(creditTransaction)) = creditTransaction
    /\ creditTransaction'[Len(creditTransaction')].userId = u
    /\ creditTransaction'[Len(creditTransaction')].balanceAfter
         = creditBalance'[u].balance

\* C4: the balance write and the transaction append of a ledger call happen
\* together or not at all.  A step changes the balance row of a user exactly
\* when it appends one transaction row for that user, whose balanceAfter is
\* the balance written; an accepted deductCredits or addCredits call has
\* exactly one row, the one it returns; a call that failed has none.
C4_BalanceAndRowTogether ==
    /\ [][\A u \in Users :
            /\ (creditBalance[u].exists /\ creditBalance'[u] # creditBalance[u])
                 => AppendsOneRowFor(u)
            /\ (creditTransaction' # creditTransaction)
                 => \E v \in Users :
                       /\ AppendsOneRowFor(v)
                       /\ creditBalance[v].exists
                       /\ \A w \in Users \ {v} :
                            creditBalance'[w] = creditBalance[w]]_vars
    /\ [](\A p \in Procs :
            (pc[p] = "done" /\ call[p].op \in {"deductCredits", "addCredits"})
            => IF result[p].status = "ok"
               THEN /\ RowsBy(p) = {result[p].tx}
                    /\ creditTransaction[result[p].tx].userId = call[p].userId
               ELSE RowsBy(p) = {})

\* an accepted call next to one whose transaction was rolled back
C4_Witness ==
    \E p, q \in Procs :
      /\ pc[p] = "done" /\ pc[q] = "done"
      /\ call[p].op \in {"deductCredits", "addCredits"}
      /\ call[q].op \in {"deductCredits", "addCredits"}
      /\ call[p].userId = call[q].userId
      /\ result[p].status = "ok"
      /\ result[q].status = "db_error"
      /\ creditBalance[call[p].userId].balance
           = creditTransaction[result[p].tx].balanceAfter

\* the bonus rows of a user that allocateNewUserBonus wrote
BonusGrants(u) ==
    {i \in TxIds :
       /\ creditTransaction[i].userId = u
       /\ creditTransaction[i].type = "bonus"
       /\ \/ creditTransaction[i].call = 0
          \/ call[creditTransaction[i].call].op = "allocateNewUserBonus"}

\* C5: allocateNewUserBonus grants the bonus of 1000 at most once per user.
\* A user never has two bonus grants; once granted, isNewUser is false; an
\* accepted call has exactly one row, of 1000.00; a call that fails has
\* none; of the calls for one user that all returned, each accepted or
\* refused with the already-bonused error, exactly one grant exists; a call
\* is refused with that error only after a grant, and its step leaves the
\* balance rows and the transaction log as they were.
C5_BonusAtMostOnce ==
    /\ [](\A u \in Users :
            /\ Cardinality(BonusGrants(u)) <= 1
            /\ (BonusGrants(u) # {} /\ creditBalance[u].exists)
                 => ~creditBalance[u].isNewUser)
    /\ [](\A p \in Procs :
            (pc[p] = "done" /\ call[p].op = "allocateNewUserBonus")
            => IF result[p].status = "ok"
               THEN /\ RowsBy(p) = {result[p].tx}
                    /\ creditTransaction[result[p].tx].type = "bonus"
                    /\ creditTransaction[result[p].tx].amount
                         = ToFixed2(Credits(BonusCredits))
               ELSE RowsBy(p) = {})
    /\ [](\A u \in Users :
            LET calls == {p \in Arrived : /\ call[p].op = "allocateNewUserBonus"
                                          /\ call[p].userId = u}
            IN  ( /\ calls # {}
                  /\ \A p \in calls :
                       /\ pc[p] = "done"
                       /\ result[p].status \in {"ok", "already_bonused"} )
                => Cardinality(BonusGrants(u)) = 1)
    /\ [][\A p \in Procs :
            (result'[p].status = "already_bonused" /\ pc[p] # "done")
            => /\ BonusGrants(call[p].userId) # {}
               /\ creditBalance' = creditBalance
               /\ creditTransaction' = creditTransaction]_vars

\* of two calls for the newly registered u2 one was accepted, one refused
C5_Witness ==
    \E p, q \in Procs :
      /\ call[p].op = "allocateNewUserBonus" /\ call[p].userId = "u2"
      /\ call[q].op = "allocateNewUserBonus" /\ call[q].userId = "u2"
      /\ result[p].status = "ok"
      /\ result[q].status = "already_bonused"
      /\ creditBalance["u2"].balance = ToFixed2(Credits(BonusCredits))

\* the committed monthly_allowance rows of a user
MonthlyRows(u) ==
    {i \in TxIds : /\ creditTransaction[i].userId = u
                   /\ creditTransaction[i].type = "monthly_allowance"}

\* u received the monthly allocation in the calendar month of t
AllocatedInMonthOf(u, t) ==
    \E i \in MonthlyRows(u) : SameMonthAndYear(creditTransaction[i].at, t)

\* C6: the monthly sweep is idempotent within a calendar month.  When a
\* sweep comes to a user who was already allocated in the current month, it
\* skips the user: eligibleUsers and successfulAllocations stay as they are,
\* allocateMonthlyCredits is not called and no balance changes.  The counters
\* a sweep reports are those of the users it did not skip.
C6_SweepIdempotent ==
    /\ [][\A p \in Procs :
            ( /\ pc[p] = "check"
              /\ sweep'[p] # sweep[p]
              /\ AllocatedInMonthOf(Head(sweep[p].todo), now) )
            => /\ sweep'[p].outcome[Head(sweep[p].todo)] = "skipped"
               /\ sweep'[p].eligibleUsers = sweep[p].eligibleUsers
               /\ sweep'[p].successfulAllocations
                    = sweep[p].successfulAllocations
               /\ fn'[p] = fn[p]
               /\ creditBalance' = creditBalance
               /\ creditTransaction' = creditTransaction]_vars
    /\ [](\A p \in Procs :
            (pc[p] = "done" /\ call[p].op = "processMonthlyAllocations")
            => /\ sweep[p].eligibleUsers
                    = Cardinality({u \in Users :
                                     sweep[p].outcome[u] \in {"ok", "failed"}})
               /\ sweep[p].successfulAllocations
                    = Cardinality({u \in Users : sweep[p].outcome[u] = "ok"})
               /\ \A u \in Users :
                    sweep[p].outcome[u] = "ok"
                    <=> \E i \in RowsBy(p) : creditTransaction[i].userId = u)

\* the second of two sweeps in one month reports no eligible user and no
\* allocation: the first had allocated every user
C6_Witness ==
    \E p, q \in Procs :
      /\ p # q
      /\ pc[p] = "done" /\ pc[q] = "done"
      /\ call[p].op = "processMonthlyAllocations"
      /\ call[q].op = "processMonthlyAllocations"
      /\ sweep[p].totalUsers > 0
      /\ sweep[p].successfulAllocations = sweep[p].totalUsers
      /\ sweep[q].totalUsers = sweep[p].totalUsers
      /\ sweep[q].eligibleUsers = 0
      /\ sweep[q].successfulAllocations = 0
      /\ \A u \in Users :
           sweep[p].outcome[u] = "ok" =>
             /\ sweep[q].outcome[u] = "skipped"
             /\ AllocatedInMonthOf(u, now)

\* the request's call of allocateMonthlyCredits throws the
\* already-allocated error in this step
LosesAllocationRace(p) ==
    \/ /\ call[p].op = "allocateMonthlyCredits"
       /\ pc[p] # "done"
       /\ result'[p].status = "already_allocated"
    \/ /\ call[p].op = "processMonthlyAllocations"
       /\ Len(sweep'[p].errors) = Len(sweep[p].errors) + 1
       /\ sweep'[p].errors[Len(sweep'[p].errors)].error = "already_allocated"

\* C7: a user receives at most one monthly allocation of 200 per calendar
\* month, whatever the interleaving of allocateMonthlyCredits calls and
\* sweeps.  No two monthly_allowance rows of a user fall in the same month
\* and year, each is of 200.00, and the month of the latest is the one the
\* balance row records; a call that throws the already-allocated error
\* leaves the balance rows (balance and lastMonthlyAllocation) and the
\* transaction log as they were.
C7_OneAllocationPerMonth ==
    /\ [](\A u \in Users :
            /\ \A i, j \in MonthlyRows(u) :
                 i # j => ~SameMonthAndYear(creditTransaction[i].at,
                                            creditTransaction[j].at)
            /\ \A i \in MonthlyRows(u) :
                 /\ creditTransaction[i].amount
                      = ToFixed2(Credits(MonthlyCredits))
                 /\ \E last \in creditBalance[u].lastMonthlyAllocation :
                      last >= creditTransaction[i].at)
    /\ [][\A p \in Procs :
            LosesAllocationRace(p)
            => /\ AllocatedInMonthOf(fn[p].userId, now)
               /\ creditBalance' = creditBalance
               /\ creditTransaction' = creditTransaction
               /\ ~staged'[p].active]_vars

\* a sweep found u1 eligible, then lost the race for u1 to another request
C7_Witness ==
    \E p \in Procs :
      /\ call[p].op = "processMonthlyAllocations"
      /\ sweep[p].outcome["u1"] = "failed"
      /\ sweep[p].eligibleUsers > 0
      /\ \E k \in 1..Len(sweep[p].errors) :
           sweep[p].errors[k] = [userId |-> "u1", error |-> "already_allocated"]
      /\ Cardinality(MonthlyRows("u1")) = 1
      /\ creditBalance["u1"].balance
           = SeedBalance("u1") + ToFixed2(Credits(MonthlyCredits))

\* the transaction rows that credit a purchase row
CreditsOfPurchase(i) == {t \in TxIds : creditTransaction[t].purchaseId = i}

\* the credits column of the plan a purchase request names, in hundredths
PlanCreditsOf(p) == subscriptionPlan[call[p].planId].credits

RECURSIVE SumPlanCredits(_)
SumPlanCredits(S) ==
    IF S = {} THEN 0
    ELSE LET p == CHOOSE q \in S : TRUE
         IN PlanCreditsOf(p) + SumPlanCredits(S \ {p})

\* the accepted processPurchase requests of u
PurchasesAcceptedFor(u) ==
    {p \in Accepted : call[p].op = "processPurchase" /\ call[p].userId = u}

\* every request has returned, and the only accepted ones on u are purchases
PurchaseRun(u) ==
    /\ Quiescent
    /\ \A p \in Accepted : call[p].userId = u => call[p].op = "processPurchase"

\* C8: k accepted purchases of a user starting at balance B leave the balance
\* at B plus the credits of the k plans, with k 'completed' purchase rows and
\* k transaction rows of type 'purchase', one per purchase, each of the
\* plan's credits.
C8_PurchasesAccumulate ==
    \A u \in Users :
      PurchaseRun(u) =>
        LET K == PurchasesAcceptedFor(u) IN
        /\ creditBalance[u].balance = SeedBalance(u) + SumPlanCredits(K)
        /\ Cardinality({i \in PurchaseIds :
                          /\ userPurchase[i].userId = u
                          /\ userPurchase[i].status = "completed"
                          /\ userPurchase[i].call \in K})
             = Cardinality(K)
        /\ Cardinality({t \in NewTxIds :
                          /\ creditTransaction[t].userId = u
                          /\ creditTransaction[t].type = "purchase"})
             = Cardinality(K)
        /\ \A p \in K :
             /\ PurchasesBy(p) = {result[p].purchase}
             /\ userPurchase[result[p].purchase].creditsAdded = PlanCreditsOf(p)
             /\ \E t \in RowsBy(p) :
                  /\ CreditsOfPurchase(result[p].purchase) = {t}
                  /\ creditTransaction[t].amount = PlanCreditsOf(p)

\* two purchases of the plan of 500 credits by u1, who had 10.00
C8_Witness ==
    /\ PurchaseRun("u1")
    /\ Cardinality(PurchasesAcceptedFor("u1")) = 2
    /\ \A p \in PurchasesAcceptedFor("u1") : call[p].planId = "starter"
    /\ creditBalance["u1"].balance = 1000 + 2 * 50000
    /\ Len(userPurchase) = 2

\* the credit step of the purchase request p fails in this step
CreditStepFails(p) ==
    /\ call[p].op = "processPurchase"
    /\ pc[p] \in {"lock", "commit"}
    /\ pc'[p] = "done"
    /\ result'[p].status # "ok"

C10_PlanMustBeActive ==
    /\ [][\A p \in Procs :
            LET plan == subscriptionPlan[call[p].planId] IN
            ( /\ pc[p] = "purchaseTx"
              /\ pc'[p] # "purchaseTx"
              /\ ~(plan.exists /\ plan.isActive) )
            => /\ pc'[p] = "done"
               /\ result'[p].status
                    \in {IF plan.exists THEN "plan_inactive"
                                        ELSE "plan_not_found", "db_error"}
               /\ result'[p].purchase = 0
               /\ userPurchase' = userPurchase
               /\ creditTransaction' = creditTransaction
               /\ creditBalance' = creditBalance]_vars
    /\ [](\A p \in Procs :
            result[p].status \in {"plan_not_found", "plan_inactive"}
            => /\ PurchasesBy(p) = {}
               /\ RowsBy(p) = {})

\* the cached listing still offers the legacy plan, the table has it
\* inactive, and a purchase of it was refused
C10_Witness ==
    \E p \in Procs :
      /\ call[p].op = "processPurchase"
      /\ call[p].planId = "legacy"
      /\ result[p].status = "plan_inactive"
      /\ ~subscriptionPlan["legacy"].isActive
      /\ plansCache # <<>>
      /\ \E i \in 1..Len(plansCache[1]) :
           /\ plansCache[1][i].id = "legacy"
           /\ plansCache[1][i].plan.isActive
      /\ userPurchase = <<>>

\* the transaction rows of a user
RowsOf(u) == {i \in TxIds : creditTransaction[i].userId = u}

\* row i comes before row j when the rows are ordered by createdAt; rows of
\* equal createdAt are taken in the order of their insertion
BeforeByCreatedAt(i, j) ==
    \/ creditTransaction[i].createdAt < creditTransaction[j].createdAt
    \/ /\ creditTransaction[i].createdAt = creditTransaction[j].createdAt
       /\ i < j

\* the rows that directly precede row j in its user's history
PrecedingRows(j) ==
    {i \in RowsOf(creditTransaction[j].userId) :
       /\ BeforeByCreatedAt(i, j)
       /\ \A k \in RowsOf(creditTransaction[j].userId) :
            ~(BeforeByCreatedAt(i, k) /\ BeforeByCreatedAt(k, j))}

\* what a row did to the balance
SignedAmount(row) ==
    IF row.type = "deduction" THEN 0 - row.amount ELSE row.amount

\* C11: for each user the transaction rows ordered by createdAt form a
\* chain, each row's balanceAfter being the preceding row's balanceAfter
\* minus its amount for a deduction and plus its amount otherwise; rows are
\* never modified once written.
C11_ChainByCreatedAt ==
    /\ [](\A j \in TxIds : \A i \in PrecedingRows(j) :
            creditTransaction[j].balanceAfter
              = creditTransaction[i].balanceAfter
                  + SignedAmount(creditTransaction[j]))
    /\ [][/\ Len(creditTransaction') >= Len(creditTransaction)
          /\ SubSeq(creditTransaction', 1, Len(creditTransaction))
               = creditTransaction]_vars

\* C12: the order of a user's transaction rows by createdAt is the order in
\* which the locked sections that wrote them were serialized: of two rows of
\* a user the one written first has no later createdAt.
C12_CreatedAtFollowsLockOrder ==
    \A i, j \in TxIds :
      ( /\ creditTransaction[i].userId = creditTransaction[j].userId
        /\ i < j )
      => creditTransaction[i].createdAt <= creditTransaction[j].createdAt

\* the balanceAfter of the transaction row of u appended last, 0 without one
LastBalanceAfter(u) ==
    IF RowsOf(u) = {} THEN 0
    ELSE creditTransaction[CHOOSE i \in RowsOf(u) :
                             \A j \in RowsOf(u) : j <= i].balanceAfter

\* C13: every change of the amount in a user's balance row comes with a
\* transaction row appended in the same step, so that a user's balance is
\* the balanceAfter of the user's most recently appended row, 0 without one.
C13_BalanceIsLastBalanceAfter ==
    /\ [](\A u \in Users :
            creditBalance[u].exists
            => creditBalance[u].balance = LastBalanceAfter(u))
    /\ [][\A u \in Users :
            ( /\ creditBalance[u].exists
              /\ creditBalance'[u].exists
              /\ creditBalance'[u].balance # creditBalance[u].balance )
            => AppendsOneRowFor(u)]_vars

\* ------------------------------------------------------- guest sessions
\* the balances a guest session has: under its Redis key, else in its row
SessionBalances(g) ==
    IF CacheGet(g).exists THEN {ParseFloat(CacheGet(g).balance)}
    ELSE IF guestSession[g].exists THEN {ParseFloat(guestSession[g].balance)}
    ELSE {}

\* getGuestBalance answers for p in this step
GuestBalanceRead(p) == pc[p] = "guestRead" /\ pc'[p] # "guestRead"

\* C14: getGuestBalance returns the session's balance from the cache when it
\* is held there, otherwise from the database row, and finds nothing only
\* when the session is in neither.
C14_GuestBalanceFromCacheOrRow ==
    [][\A p \in Procs :
         GuestBalanceRead(p) =>
           LET held == SessionBalances(call[p].guestUserId) IN
           IF held = {}
           THEN pc'[p] = "guestInit"
           ELSE /\ pc'[p] = "done"
                /\ result'[p].status = "ok"
                /\ result'[p].seen = held]_vars

\* initializeGuestSession answers for p in this step
GuestInitialized(p) == pc[p] = "guestInit" /\ pc'[p] = "done"

\* C15: when the cache is not configured or cannot be reached,
\* initializeGuestSession of a session that has no row does not fail: it
\* inserts the row with 200.00 and an expiresAt 24 hours ahead, so that the
\* balance can be read back at once.
C15_InitFallsBackToRow ==
    [][\A p \in Procs :
         LET g == call[p].guestUserId IN
         (/\ GuestInitialized(p)
          /\ redis \in {"none", "down"}
          /\ ~guestSession[g].exists)
         => /\ result'[p].status = "ok"
            /\ guestSession'[g] =
                 [exists |-> TRUE,
                  balance |-> ToFixed2(Credits(GuestCredits)),
                  expiresAt |-> now + GuestTtl]
            /\ SessionBalances(g)' = {Credits(GuestCredits)}]_vars

\* C16: deductGuestCredits, in the store that holds the session, refuses
\* with InsufficientCredits and changes nothing when the balance it read is
\* below the amount, and otherwise stores and returns that balance minus the
\* amount, which is never negative.
C16_GuestDeductRule ==
    [][\A p \in Procs :
         LET g == call[p].guestUserId
             held == SessionBalances(g)
             roundedAmount == fn[p].amount
         IN
         /\ (pc[p] = "guestDeduct" /\ pc'[p] # "guestDeduct"
             /\ result'[p].status # "db_error" /\ held # {})
            => \E balance \in held :
                 IF balance < roundedAmount
                 THEN /\ result'[p].status = "insufficient"
                      /\ UNCHANGED <<guestCache, guestSession>>
                 ELSE /\ balance - roundedAmount >= 0
                      /\ IF redis = "up"
                         THEN /\ pc'[p] = "guestSet"
                              /\ ParseFloat(fn'[p].session.balance) =
                                   balance - roundedAmount
                              /\ UNCHANGED <<guestCache, guestSession>>
                         ELSE /\ result'[p].status = "ok"
                              /\ result'[p].seen = {balance - roundedAmount}
                              /\ SessionBalances(g)' = result'[p].seen
         /\ (pc[p] = "guestSet" /\ result'[p].status = "ok")
            => /\ result'[p].seen = {ParseFloat(fn[p].session.balance)}
               /\ SessionBalances(g)' = result'[p].seen
         /\ (call'[p].op = "deductGuestCredits" /\ pc[p] # "done"
             /\ pc'[p] = "done" /\ result'[p].status # "ok")
            => UNCHANGED <<guestCache, guestSession>>]_vars

\* a guest spent its whole balance, and a deduction of 1 was then refused
C16_Witness ==
    /\ SessionBalances("g1") = {0}
    /\ \E p, q \in Procs :
         /\ call[p].op = "deductGuestCredits" /\ call[p].guestUserId = "g1"
         /\ call[p].amount = Credits(GuestCredits)
         /\ pc[p] = "done" /\ result[p].status = "ok" /\ result[p].seen = {0}
         /\ call[q].op = "deductGuestCredits" /\ call[q].guestUserId = "g1"
         /\ call[q].amount = Credits(1)
         /\ pc[q] = "done" /\ result[q].status = "insufficient"
         /\ result[q].seen = {0}

\* the expiresAt of a guest's session, in the store that holds it
SessionExpiresAt(g) ==
    IF CacheGet(g).exists THEN {CacheGet(g).expiresAt}
    ELSE IF guestSession[g].exists THEN {guestSession[g].expiresAt}
    ELSE {}

\* C17: once the expiresAt of a guest session has passed, its balance is
\* gone: getGuestBalance does not return it and deductGuestCredits does not
\* debit it, with Redis and without.
C17_GuestBalanceExpires ==
    [][\A p \in Procs :
         LET g == call[p].guestUserId IN
         /\ (GuestBalanceRead(p) /\ pc'[p] = "done")
            => \A expiresAt \in SessionExpiresAt(g) : now <= expiresAt
         /\ (pc[p] = "guestDeduct" /\ pc'[p] # "guestDeduct"
             /\ result'[p].status \in {"", "ok", "insufficient"})
            => \A expiresAt \in SessionExpiresAt(g) : now <= expiresAt]_vars

\* the credits a guest has left in the guest balance layer
GuestResidual(g) ==
    IF g \in Guests /\ SessionBalances(g) # {}
    THEN CHOOSE b \in SessionBalances(g) : TRUE
    ELSE 0

\* the guest balance layer holds something for g
GuestBalanceExists(g) == g \in Guests /\ SessionBalances(g) # {}

\* migrateGuestToUser returns to p in this step, with no other request under
\* way
MigrationReturns(p) ==
    /\ call[p].op = "migrateGuestToUser"
    /\ pc[p] # "done" /\ pc'[p] = "done" /\ result'[p].status = "ok"
    /\ \A q \in Procs \ {p} : pc[q] \in {"idle", "done"}

\* C18: migrateGuestToUser(guest, user) moves what the guest has left in the
\* guest balance layer to the user: on return the user's balance is its
\* prior balance plus that residue and the guest's balance exists no more
\* (so that a second call finds nothing to move).
C18_MigrationTransfersResidual ==
    [][\A p \in Procs :
         LET g == call[p].guestUserId
             u == call[p].userId
         IN
         (MigrationReturns(p) /\ g \in Guests /\ creditBalance[u].exists)
         => /\ ParseFloat(creditBalance'[u].balance) =
                 ParseFloat(creditBalance[u].balance) + GuestResidual(g)
            /\ ~GuestBalanceExists(g)']_vars

\* ----------------------------------------------------------- onboarding
\* allocateNewUserBonus commits for p in this step
BonusCommits(p) ==
    /\ fn[p].name = "allocateNewUserBonus"
    /\ pc[p] = "commit" /\ pc'[p] = "done" /\ result'[p].status = "ok"

\* C19: once a user has the new user bonus its lastMonthlyAllocation is set,
\* and a sweep in the calendar month of the bonus does not count the user
\* eligible and gives the user nothing.
C19_BonusSetsLastMonthlyAllocation ==
    /\ [][\A p \in Procs :
            BonusCommits(p) =>
              creditBalance'[fn[p].userId].lastMonthlyAllocation # {}]_vars
    /\ [](\A i, j \in TxIds :
            (/\ creditTransaction[i].userId = creditTransaction[j].userId
             /\ creditTransaction[i].type = "bonus"
             /\ creditTransaction[j].type = "monthly_allowance")
            => ~SameMonthAndYear(creditTransaction[i].createdAt,
                                 creditTransaction[j].createdAt))

\* ------------------------------------------------------------- calendar
\* the number of the calendar month a day falls in, counted from day 0: two
\* days have the same month and year exactly when this number is the same
MonthNumber(t) == t \div DaysPerMonth

\* u has a balance row and received no allocation in the month of today
CalendarEligible(u) ==
    /\ creditBalance[u].exists
    /\ \A last \in creditBalance[u].lastMonthlyAllocation :
         MonthNumber(last) # MonthNumber(now)

SweepHandled(p, outcomes) ==
    {u \in Users : sweep[p].outcome[u] \in outcomes}

\* the users a sweep has still to come to
SweepTodo(p) ==
    {sweep[p].todo[k] : k \in 1..Len(sweep[p].todo)}

\* allocateMonthlyCredits fails for the user a sweep is at, in this step
SweepAllocationFails(p) ==
    /\ call[p].op = "processMonthlyAllocations"
    /\ sweep'[p].failedAllocations # sweep[p].failedAllocations

RegisteredWithBalance == {u \in Users : creditBalance[u].exists}

\* C22: the sweep enumerates the registered users that have a balance row,
\* all of them and nobody else: no guest is given a monthly_allowance row,
\* and totalUsers counts every registered user with a balance row.
C22_SweepEnumeratesRegisteredUsers ==
    /\ [](\A i \in TxIds :
            creditTransaction[i].type = "monthly_allowance"
            => creditTransaction[i].userId \in Users)
    /\ [][\A p \in Procs :
            (pc[p] = "idle" /\ call'[p].op = "processMonthlyAllocations")
            => /\ sweep'[p].totalUsers = Cardinality(RegisteredWithBalance)
               /\ SweepTodo(p)' = RegisteredWithBalance]_vars

\* ----------------------------------------------------------- validation
DebitOps == {"deductCredits", "POST /api/credits/deduct", "POST deduct"}

\* a debit request arrives in this step
DebitArrives(p) == pc[p] = "idle" /\ call'[p].op \in DebitOps

\* C23: a debit whose amount is not above 0, or is above 10000, is rejected
\* as an invalid amount when it arrives: no lock is asked for, no balance and
\* no transaction row is written for it.
C23_InvalidDebitRejected ==
    /\ [][\A p \in Procs :
            (/\ DebitArrives(p)
             /\ \/ call'[p].amount <= 0
                \/ call'[p].amount > Credits(MaxDeductAmount))
            => /\ pc'[p] = "done"
               /\ result'[p].status \in {"invalid_amount", "invalid_request"}
               /\ UNCHANGED <<dbVars, staged>>]_vars
    /\ [](\A i \in NewTxIds :
            LET q == creditTransaction[i].call IN
            call[q].op \in DebitOps
            => call[q].amount > 0 /\ call[q].amount <= Credits(MaxDeductAmount))

\* C25: every transaction row has an amount above 0, as stored with two
\* decimals; whether it was added or taken shows in the type alone.
C25_AmountsPositive ==
    \A i \in TxIds : creditTransaction[i].amount > 0

\* ------------------------------------------------------------ purchases
\* C26: a purchase row stores the credits and the price of the plan as they
\* were read when it was inserted, the transaction row that credits the
\* purchase carries the same credits, and no purchase row changes afterwards,
\* whatever happens to the plan.
C26_PurchaseSnapshot ==
    /\ [][/\ Len(userPurchase') >= Len(userPurchase)
          /\ \A i \in PurchaseIds : userPurchase'[i] = userPurchase[i]
          /\ \A i \in 1..Len(userPurchase') :
               i \notin PurchaseIds =>
                 LET row == userPurchase'[i]
                     plan == subscriptionPlan[row.planId]
                 IN  /\ plan.exists
                     /\ row.creditsAdded = plan.credits
                     /\ row.amountPaid = plan.price]_vars
    /\ [](\A t \in TxIds :
            creditTransaction[t].purchaseId # 0 =>
              LET i == creditTransaction[t].purchaseId IN
              /\ i \in PurchaseIds
              /\ creditTransaction[t].type = "purchase"
              /\ creditTransaction[t].userId = userPurchase[i].userId
              /\ creditTransaction[t].amount = userPurchase[i].creditsAdded)

\* a purchase of the legacy plan was credited, the plan was deactivated
\* afterwards, and the purchase row is as it was
C26_Witness ==
    /\ ~subscriptionPlan["legacy"].isActive
    /\ \E i \in PurchaseIds :
         /\ userPurchase[i].planId = "legacy"
         /\ userPurchase[i].creditsAdded = subscriptionPlan["legacy"].credits
         /\ userPurchase[i].amountPaid = subscriptionPlan["legacy"].price
         /\ userPurchase[i].status = "completed"
         /\ \E t \in CreditsOfPurchase(i) :
              creditTransaction[t].amount = userPurchase[i].creditsAdded

\* -------------------------------------------------------------- catalog
\* getAvailablePlans obtains its result in this step: from the cache, or
\* from the table
ListingObtained(p) ==
    \/ pc[p] = "plansGet" /\ pc'[p] = "done" /\ result'[p].status = "ok"
    \/ pc[p] = "plansSelect" /\ pc'[p] # "plansSelect"

\* C27: what getAvailablePlans returns holds only plans that are active,
\* in ascending order of credits.
C27_ListingActiveAscending ==
    [][\A p \in Procs :
         ListingObtained(p) =>
           LET plans == listing'[p] IN
           /\ \A i \in 1..Len(plans) :
                /\ plans[i].plan.isActive
                /\ subscriptionPlan[plans[i].id].isActive
           /\ \A i, j \in 1..Len(plans) :
                i < j => plans[i].plan.credits <= plans[j].plan.credits]_vars

\* C28: the cached listing is filled on a miss and deleted whenever the
\* catalog changes: a request that misses caches the listing it read, and a
\* step that inserts, edits or deactivates a plan leaves no cache entry
\* behind.
C28_CacheInvalidatedOnChange ==
    /\ [][subscriptionPlan' # subscriptionPlan => plansCache' = <<>>]_vars
    /\ [][\A p \in Procs :
            (pc[p] = "plansSet" /\ pc'[p] = "done")
            => plansCache' = <<listing[p]>>]_vars


\* ------------------------------------------------------- history requests
HistoryOps == {"GET /api/credits/transactions", "GET /api/payments/history"}

\* request p is answered in this step
HistoryAnswered(p) ==
    /\ pc[p] = "idle"
    /\ pc'[p] = "done"
    /\ call'[p].op \in HistoryOps

\* the table a history request reads
HistoryTable(op) ==
    IF op = "GET /api/credits/transactions" THEN creditTransaction
    ELSE userPurchase

PrincipalRows(op, u) ==
    {i \in 1..Len(HistoryTable(op)) : HistoryTable(op)[i].userId = u}

Range(seq) == {seq[k] : k \in 1..Len(seq)}

\* page holds rows of the principal, each once, and as many as limit and
\* offset leave of them; offset rows, none of them older than a row of the
\* page, are skipped, and no row left after the page is newer than one of it
PageOfPrincipal(op, u, limit, offset, page) ==
    LET table == HistoryTable(op)
        rows == PrincipalRows(op, u)
        n == Cardinality(rows)
        left == IF n > offset THEN n - offset ELSE 0
    IN  /\ Range(page) \subseteq rows
        /\ \A i, j \in 1..Len(page) : i # j => page[i] # page[j]
        /\ Len(page) = IF left < limit THEN left ELSE limit
        /\ \E skipped \in SUBSET (rows \ Range(page)) :
             /\ Cardinality(skipped) = IF n > offset THEN offset ELSE n
             /\ \A s \in skipped, r \in Range(page) :
                  table[s].createdAt >= table[r].createdAt
             /\ \A l \in rows \ (Range(page) \cup skipped), r \in Range(page) :
                  table[l].createdAt <= table[r].createdAt

C30_TotalIsRowCount ==
    [][\A p \in Procs :
         HistoryAnswered(p) /\ result'[p].status = "ok" =>
           result'[p].seen =
             {Cardinality(PrincipalRows(call'[p].op, call'[p].userId))}]_vars


\* ------------------------------------------------------------- isolation
MutationOps ==
    {"deductCredits", "addCredits", "allocateNewUserBonus",
     "allocateMonthlyCredits", "processPurchase"}

\* this step is a step of request p
ActsIn(p) ==
    <<pc'[p], fn'[p], staged'[p], result'[p]>>
      # <<pc[p], fn[p], staged[p], result[p]>>

\* C31: a debit, credit, bonus, monthly allocation or purchase for user A
\* leaves user B's balance row, transaction rows and purchase rows
\* unchanged, and a page of a user's transaction or purchase history holds
\* rows of that user only, so that no row is in two users' histories
C31_UsersIsolated ==
    [][/\ \A p \in Procs :
            ActsIn(p) /\ call'[p].op \in MutationOps =>
              \A b \in Users \ {call'[p].userId} :
                /\ creditBalance'[b] = creditBalance[b]
                /\ SelectSeq(creditTransaction', LAMBDA r : r.userId = b)
                     = SelectSeq(creditTransaction, LAMBDA r : r.userId = b)
                /\ SelectSeq(userPurchase', LAMBDA r : r.userId = b)
                     = SelectSeq(userPurchase, LAMBDA r : r.userId = b)
       /\ \A p \in Procs :
            HistoryAnswered(p) =>
              \A k \in 1..Len(listing'[p]) :
                HistoryTable(call'[p].op)[listing'[p][k]].userId
                  = call'[p].userId]_vars

\* u2 received its bonus, and u1 read a page of two of its transactions
C31_Witness ==
    \E p, q \in Procs :
      /\ pc[p] = "done"
      /\ call[p].op = "allocateNewUserBonus"
      /\ call[p].userId = "u2"
      /\ result[p].status = "ok"
      /\ pc[q] = "done"
      /\ call[q].op = "GET /api/credits/transactions"
      /\ call[q].userId = "u1"
      /\ Len(listing[q]) = 2
      /\ \E i \in 1..Len(creditTransaction) :
           creditTransaction[i].userId = "u2"


\* ---------------------------------------------------------- row locks only
\* the locked section of the ledger function p is in
LockedSection(p) ==
    \/ DeductCreditsLocked(p)
    \/ AddCreditsLocked(p)
    \/ AllocateNewUserBonusLocked(p)
    \/ AllocateMonthlyCreditsLocked(p)

Priced(p) == pc[p] = "done" /\ call[p].op = "calculateCredits"

\* C33: calculateCredits is a function of the text alone: for a text of c
\* characters it returns c/20 rounded to 2 decimal places, which is 5*c
\* hundredths of a credit, never negative, non-decreasing in c, 0.00 for the
\* empty text, 5.00 for 100 characters and 50.00 for 1000 characters
C33_CalculateCredits ==
    /\ \A p \in Procs :
         Priced(p) =>
           /\ result[p].seen = {Len(call[p].text) * 5 * 10}
           /\ \A credits \in result[p].seen : credits >= 0
           /\ call[p].text = <<>> => result[p].seen = {0}
           /\ Len(call[p].text) = 100 => result[p].seen = {Credits(5)}
           /\ Len(call[p].text) = 1000 => result[p].seen = {Credits(50)}
    /\ \A p, q \in Procs :
         Priced(p) /\ Priced(q) =>
           /\ call[p].text = call[q].text => result[p].seen = result[q].seen
           /\ Len(call[p].text) <= Len(call[q].text) =>
                \A a \in result[p].seen, b \in result[q].seen : a <= b

\* a text of 100 characters and a text of two characters were priced
C33_Witness ==
    \E p, q \in Procs :
      /\ Priced(p)
      /\ Priced(q)
      /\ Len(call[p].text) = 100
      /\ Len(call[q].text) = 2
      /\ result[q].seen = {100}


\* ------------------------------------------------------------ rate limiter
\* this step is a request of key k to the rate limiter
Limited(k) ==
    /\ limiter'.sent = limiter.sent + 1
    /\ limiter'.last.key = k

RECURSIVE SumGuestDebits(_)
SumGuestDebits(S) ==
    IF S = {} THEN 0
    ELSE LET p == CHOOSE q \in S : TRUE IN
         Round2(call[p].amount) + SumGuestDebits(S \ {p})

\* every request was a deductGuestCredits call on the session g, and all
\* have returned
OnlyGuestDebitsOn(g) ==
    \A p \in Procs :
      /\ pc[p] = "done"
      /\ call[p].op = "deductGuestCredits"
      /\ call[p].guestUserId = g

\* C35: after any interleaving of concurrent deductGuestCredits calls on a
\* guest session held in the cache, the stored balance is the initial
\* balance minus the amounts of the calls that returned successfully, and
\* it is not below 0
C35_GuestDebitsNotLost ==
    redis = "up" /\ OnlyGuestDebitsOn("g1") =>
      /\ ParseFloat(guestCache["g1"].balance)
           = Credits(GuestCredits)
               - SumGuestDebits({p \in Procs : result[p].status = "ok"})
      /\ guestCache["g1"].balance >= 0


\* --------------------------------------------------- guest balance frozen
\* C36: no balance request, initialization or deduction raises the stored
\* balance of a guest session that exists: neither that of its cache key
\* while the key has not expired nor that of its GuestSession row
C36_GuestBalanceNeverRaised ==
    [][\A g \in Guests :
         /\ CacheGet(g).exists =>
              guestCache'[g].balance <= guestCache[g].balance
         /\ guestSession[g].exists =>
              guestSession'[g].balance <= guestSession[g].balance]_vars


\* ------------------------------------------------ the deduct response
\* C37: the newBalance the deduct endpoint returns for an authenticated user
\* equals the balanceAfter of the transaction of the same response, also
\* when other debits or credits of that user run concurrently
C37_NewBalanceIsBalanceAfter ==
    \A p \in Procs :
      /\ pc[p] = "done"
      /\ call[p].op \in DeductRoutes
      /\ result[p].status = "ok"
      => result[p].seen
           = {ParseFloat(creditTransaction[result[p].tx].balanceAfter)}


\* ------------------------------------------------ migration conserves
\* the balance of the CreditBalance row of id in table, 0 without a row
BalanceIn(table, id) ==
    IF id \in Users /\ table[id].exists THEN table[id].balance ELSE 0

\* the transaction of migrateGuestToUser of request p commits in this step
MigrationCommits(p) ==
    /\ call[p].op = "migrateGuestToUser"
    /\ pc[p] = "migrateCommit"
    /\ pc'[p] = "done"
    /\ result'[p].status = "ok"

\* C38: migrateGuestToUser conserves credits: when its transaction commits,
\* the balance of the user plus what is left on the guest row equals the sum
\* of the two balances before, also when the user has no balance row and
\* when debits or credits of either row ran concurrently
C38_MigrationConservesCredits ==
    [][\A p \in Procs :
         MigrationCommits(p) =>
           BalanceIn(creditBalance', call[p].userId)
             + BalanceIn(creditBalance', call[p].guestUserId)
           = BalanceIn(creditBalance, call[p].userId)
               + BalanceIn(creditBalance, call[p].guestUserId)]_vars


\* ------------------------------------------------------------ completion
LedgerOperations ==
    {"deductCredits", "addCredits", "allocateNewUserBonus",
     "allocateMonthlyCredits", "processPurchase", "migrateGuestToUser"}

\* C39 as stated: under weak fairness every ledger operation that was
\* started completes with success or an error, and no interleaving
\* deadlocks on balance-row locks
C39_CompleteWithoutDeadlock ==
    /\ \A p \in Procs :
         (call[p].op \in LedgerOperations) ~> (pc[p] = "done")
    /\ [](\A p \in Procs : ~InWaitCycle(p))

\* the part of C39 that does hold: under weak fairness every ledger operation
\* that was started completes with success or an error; the only cycles of
\* lock waits are between migrateGuestToUser transactions, and the database
\* ends them with an error for one of them
C39_AllComplete ==
    /\ \A p \in Procs :
         (call[p].op \in LedgerOperations) ~> (pc[p] = "done")
    /\ [](\A p \in Procs :
            /\ pc[p] = "done" /\ call[p].op \in LedgerOperations =>
                 result[p].status # ""
            /\ InWaitCycle(p) => call[p].op = "migrateGuestToUser")

\* two migrations in opposite directions wait for each other
C39_Witness ==
    \E p, q \in Procs :
      /\ p # q
      /\ WaitsFor(p) = q
      /\ WaitsFor(q) = p


\* ------------------------------------------------------- balance-row frame
\* this step commits a transaction of the function named that wrote the
\* row of u
CommittedBy(u, names) ==
    \E p \in Procs :
      /\ pc[p] = "commit"
      /\ pc'[p] # "commit"
      /\ fn[p].userId = u
      /\ fn[p].name \in names
      /\ creditBalance'[u] = staged[p].row

\* the allocation time t is not before the one recorded in the row
NotBefore(lastMonthlyAllocation, t) ==
    \A last \in lastMonthlyAllocation : last <= t

\* C40: deductCredits, addCredits and processPurchase leave isNewUser and
\* lastMonthlyAllocation of the balance row as they were; isNewUser goes
\* from true to false only in allocateNewUserBonus and never from false to
\* true; lastMonthlyAllocation changes only in allocateMonthlyCredits and
\* never moves backwards
C40_RowFrame ==
    [][\A u \in Users :
         LET old == creditBalance[u]
             new == creditBalance'[u]
         IN  old.exists /\ new.exists =>
               /\ CommittedBy(u, {"deductCredits", "addCredits"}) =>
                    /\ new.isNewUser = old.isNewUser
                    /\ new.lastMonthlyAllocation = old.lastMonthlyAllocation
               /\ new.isNewUser # old.isNewUser =>
                    /\ old.isNewUser
                    /\ ~new.isNewUser
                    /\ CommittedBy(u, {"allocateNewUserBonus"})
               /\ new.lastMonthlyAllocation # old.lastMonthlyAllocation =>
                    /\ CommittedBy(u, {"allocateMonthlyCredits"})
                    /\ new.lastMonthlyAllocation # {}
                    /\ \A t \in new.lastMonthlyAllocation :
                         NotBefore(old.lastMonthlyAllocation, t)]_vars

\* a debit or a credit was committed on a row after the row's monthly
\* allocation of an earlier day, and the row still carries that day
C40_Witness ==
    \E p, q \in Procs :
      /\ call[p].op = "allocateMonthlyCredits"
      /\ call[q].op \in {"deductCredits", "addCredits", "processPurchase"}
      /\ call[q].userId = call[p].userId
      /\ result[p].status = "ok"
      /\ result[q].status = "ok"
      /\ result[q].tx > result[p].tx
      /\ creditBalance[call[p].userId].exists
      /\ creditBalance[call[p].userId].lastMonthlyAllocation # {}

====
